---- MODULE Spec2Model ----
(***************************************************************************)
(* A model of the cubism-rs runtime layer: the ControllerMap registry of    *)
(* src/src/controller.rs, the UserModel parameter snapshot of               *)
(* src/src/model.rs over the core Model of src/cubism-core/src/model.rs,    *)
(* and the Motion playback state of src/src/motion.rs.                      *)
(*                                                                         *)
(* An Option<T> is a sequence of length 0 (None) or 1 (Some(x)).  A Vec     *)
(* and a FixedBitSet are sequences; the code's 0-based index i is the       *)
(* sequence position i + 1.  Times are integers (a fixed time unit).        *)
(*                                                                         *)
(* SpecCM, SpecUM, SpecModel and SpecMotion each run one component and      *)
(* leave the others in their initial state.                                 *)
(***************************************************************************)
EXTENDS Integers, Sequences, FiniteSets, TLC

\* ---------------------------------------------------------------- bounds
MaxNames == 2
MaxPrio == 2
MaxInserts == 3
NParams == 2
NParts == 1
NDrawables == 1
MaxVal == 1
MaxDuration == 2
MaxDt == 3
MaxBack == 1
MaxTiming == 2
MaxModels == 2
MaxMasks == 1
MaxWrites == 2
NThreads == 3
MaxCalls == 2
MaxControllers == 2

\* ------------------------------------------------------ program constants
BITS == 32
csmMocVersion_40 == 3
UNINITIALIZED == 0
INITIALIZING == 1
INITIALIZED == 2

Names == 1..MaxNames
Priorities == 1..MaxPrio

None == <<>>
Some(x) == <<x>>

VARIABLES
  buf,        \* ControllerMap.controllers.buf : Vec<Option<Box<dyn Controller>>>
  last_free,  \* ControllerMap.controllers.last_free
  name_map,   \* ControllerMap.name_map : name -> Option<slot index>
  enabled,    \* ControllerMap.enabled : FixedBitSet
  nextId,     \* identity of the next controller object handed to insert
  ret,        \* the value returned by the last insert / remove
  runs,       \* the controllers whose update_parameters the last operation ran, in order
  param,      \* the model parameter every test controller writes its id to
  cmOp,       \* the last ControllerMap operation and its arguments
  panicked,   \* a panic unwound out of a ControllerMap operation
  model,      \* UserModel.model : the core Model (values, opacities, derived drawable state)
  parameter_snapshot, \* UserModel.parameter_snapshot
  umOp,       \* the last UserModel / Model operation
  saved,      \* Some(values and opacities at the last save_parameters() call)
  dirty,      \* the last load_parameters() found values other than the snapshot
  recomputed, \* per drawable, the change flags the recomputation of the last operation set
  motion,     \* the Motion: duration, looped, playing, current_time
  moOp,       \* the last Motion operation
  moDt,       \* the delta_time of the last tick
  moPrev      \* the Motion before the last operation

cmVars == <<buf, last_free, name_map, enabled, nextId, ret, runs, param, cmOp, panicked>>

umVars == <<model, parameter_snapshot, umOp, saved, dirty, recomputed>>

moVars == <<motion, moOp, moDt, moPrev>>

VARIABLES
  eye,        \* the EyeBlink controller
  ebModel,    \* the parameter values of the model the EyeBlink writes to
  ebLog       \* the last EyeBlink operation: delta, the EyeBlink before it, the value written

ebVars == <<eye, ebModel, ebLog>>

VARIABLES
  expr,       \* an Expression: its (index, blend type, value) entries
  exModel,    \* the parameter values and part opacities of the model it is applied to
  exLog       \* the last Expression operation: the weight passed, the model before it

exVars == <<expr, exModel, exLog>>

VARIABLES
  mocs,       \* the Mocs alive, each behind one Arc
  heap,       \* the csmModel memories allocated, in allocation order
  models,     \* the core Models alive: the memory and the Moc each one holds
  coreLog     \* the last core operation, its arguments and its result

coreVars == <<mocs, heap, models, coreLog>>

VARIABLES
  LOG_STATE,  \* log.rs: static STATE : AtomicUsize
  LOGGER,     \* log.rs: static mut LOGGER; None is the initial no-op closure
  registered, \* the number of csmSetLogFunction calls made
  pc,         \* per thread, where its set_core_logger call stands
  calls,      \* per thread, the set_core_logger calls it has begun
  lgLog       \* the calls that won the swap, wrote LOGGER, returned

lgVars == <<LOG_STATE, LOGGER, registered, pc, calls, lgLog>>

VARIABLES
  curves,     \* Motion.json.curves : the curves of the motion, each with its segments
  muModel,    \* the parameter values and part opacities of the model the motion drives
  muLog       \* the last Motion::update: per curve, the segment taken and the value written

muVars == <<curves, muModel, muLog>>

VARIABLES
  controllers,         \* UserModel.controllers : Vec<Box<dyn Controller>>
  controllers_rev_map, \* UserModel.controllers_rev_map : name -> Option<slot>
  controllers_enabled, \* UserModel.controllers_enabled : fixedbitset::FixedBitSet
  expressions,         \* UserModel.expressions : name -> Option<Expression>
  current_expression,  \* UserModel.current_expression : Option<name>
  expression_weight,   \* UserModel.expression_weight
  ucLog                \* the last of these UserModel operations: what it returned,
                       \* the slots update ran, the slots controller_enable switched on

ucVars == <<controllers, controllers_rev_map, controllers_enabled, expressions,
            current_expression, expression_weight, ucLog>>

VARIABLES
  ec_expressions, \* a util::SimpleSlab; ExpressionController.expressions
  ec_name_map,   \* ExpressionController.name_map : name -> Option<index>
  current_expr,  \* ExpressionController.current_expr : Option<index>
  ec_weight,     \* ExpressionController.weight
  ecModel,       \* the model the ExpressionController writes to
  ecLog          \* the last operation on the slab or the controller, and what it returned

ecVars == <<ec_expressions, ec_name_map, current_expr, ec_weight, ecModel, ecLog>>

VARIABLES
  bitset,     \* a FixedBitSet handed to BitIter::from_bitset
  biLog       \* what iterating the BitIter to its end gave

biVars == <<bitset, biLog>>

\* the components added to the runtime layer after the first three
extVars == <<ebVars, exVars, coreVars, lgVars, ucVars, muVars, ecVars, biVars>>

\* what the actions of one added component leave alone
ebRest == <<cmVars, umVars, moVars, exVars, coreVars, lgVars, ucVars, muVars, ecVars, biVars>>
exRest == <<cmVars, umVars, moVars, ebVars, coreVars, lgVars, ucVars, muVars, ecVars, biVars>>
coreRest == <<cmVars, umVars, moVars, ebVars, exVars, lgVars, ucVars, muVars, ecVars, biVars>>
lgRest == <<cmVars, umVars, moVars, ebVars, exVars, coreVars, ucVars, muVars, ecVars, biVars>>
ucRest == <<cmVars, moVars, ebVars, exVars, coreVars, lgVars, muVars, ecVars, biVars>>
muRest == <<cmVars, umVars, moVars, ebVars, exVars, coreVars, lgVars, ucVars, ecVars, biVars>>
ecRest == <<cmVars, umVars, moVars, ebVars, exVars, coreVars, lgVars, ucVars, muVars, biVars>>
biRest == <<cmVars, umVars, moVars, ebVars, exVars, coreVars, lgVars, ucVars, muVars, ecVars>>

vars == <<cmVars, umVars, moVars, extVars>>

\* ------------------------------------------------------------ SimpleSlab

\* slice.iter().position(|c| c.is_none())
RECURSIVE PositionNone(_)
PositionNone(s) ==
  IF s = <<>> THEN None
  ELSE IF Head(s) = None THEN Some(0)
  ELSE LET r == PositionNone(Tail(s)) IN
       IF r = None THEN None ELSE Some(r[1] + 1)

SimpleSlab_push(slab, c) ==
  LET len == Len(slab.buf) IN
  IF len <= slab.last_free
  THEN [buf |-> Append(slab.buf, Some(c)), last_free |-> len, ret |-> len]
  ELSE LET b2 == [slab.buf EXCEPT ![slab.last_free + 1] = Some(c)]
           pos == PositionNone(SubSeq(b2, slab.last_free + 1, len))
       IN [buf |-> b2,
           last_free |-> IF pos = None THEN len ELSE pos[1] + slab.last_free,
           ret |-> slab.last_free]

SimpleSlab_take(slab, idx) ==
  LET lf == IF idx < slab.last_free THEN idx ELSE slab.last_free IN
  IF idx < Len(slab.buf)
  THEN [buf |-> [slab.buf EXCEPT ![idx + 1] = None], last_free |-> lf,
        ret |-> slab.buf[idx + 1]]
  ELSE [buf |-> slab.buf, last_free |-> lf, ret |-> None]

SimpleSlab_get(b, idx) == IF idx < Len(b) THEN b[idx + 1] ELSE None

\* buf.iter_mut().flat_map(..): the stored controllers, holes skipped
SimpleSlab_iter_mut(b) == SelectSeq(b, LAMBDA o : o # None)

\* ----------------------------------------------------------- FixedBitSet

FixedBitSet_grow(bs, bits) ==
  IF bits > Len(bs) THEN bs \o [i \in 1..(bits - Len(bs)) |-> FALSE] ELSE bs

\* as_slice(): the u32 blocks, each one BITS booleans, least significant first
FixedBitSet_as_slice(bs) ==
  [k \in 1..((Len(bs) + BITS - 1) \div BITS) |->
     [j \in 1..BITS |-> LET i == (k - 1) * BITS + j IN
                        IF i <= Len(bs) THEN bs[i] ELSE FALSE]]

\* ---------------------------------------------------------------- BitIter

ZeroBlock == [j \in 1..BITS |-> FALSE]

BitIter_from_bitset(set) ==
  LET blocks == FixedBitSet_as_slice(set) IN
  [last_block_len |-> Len(set) % BITS,
   current_block_shift |-> 0,
   current_block |-> IF blocks = <<>> THEN ZeroBlock ELSE Head(blocks),
   remaining_blocks |-> IF blocks = <<>> THEN <<>> ELSE Tail(blocks)]

\* next(): item is None at the end, Some(bit) otherwise; unreachable is the
\* panic of the unreachable!() branch
BitIter_next(it) ==
  IF it.remaining_blocks = <<>> /\ it.current_block_shift = it.last_block_len
  THEN [item |-> None, it |-> it, unreachable |-> FALSE]
  ELSE IF it.current_block_shift = BITS /\ it.remaining_blocks = <<>>
  THEN [item |-> None, it |-> it, unreachable |-> TRUE]
  ELSE LET cur == IF it.current_block_shift = BITS
                  THEN [it EXCEPT !.remaining_blocks = Tail(it.remaining_blocks),
                                  !.current_block_shift = 0,
                                  !.current_block = Head(it.remaining_blocks)]
                  ELSE it
       IN [item |-> Some(Head(cur.current_block)),
           it |-> [cur EXCEPT !.current_block = Tail(cur.current_block) \o <<FALSE>>,
                              !.current_block_shift = cur.current_block_shift + 1],
           unreachable |-> FALSE]

\* controllers.iter_mut().zip(BitIter).filter_map(..).collect(): zip asks the
\* controllers first and the bits only while a controller is left
RECURSIVE ZipFilter(_, _)
ZipFilter(cons, it) ==
  IF cons = <<>> THEN [cons |-> <<>>, panic |-> FALSE]
  ELSE LET r == BitIter_next(it) IN
       IF r.unreachable THEN [cons |-> <<>>, panic |-> TRUE]
       ELSE IF r.item = None THEN [cons |-> <<>>, panic |-> FALSE]
       ELSE LET rest == ZipFilter(Tail(cons), r.it) IN
            [cons |-> (IF r.item[1] THEN <<Head(cons)[1]>> ELSE <<>>) \o rest.cons,
             panic |-> rest.panic]

enabled_controllers_mut(b, en) ==
  ZipFilter(SimpleSlab_iter_mut(b), BitIter_from_bitset(en))

\* ---------------------------------------------------------- ControllerMap

\* get(name) and is_enabled(name) of the map with name_map nm, slab buffer b
\* and enabled bits en
ControllerMap_get(nm, b, n) ==
  IF nm[n] = None THEN None ELSE SimpleSlab_get(b, nm[n][1])

ControllerMap_is_enabled(nm, en, n) ==
  IF nm[n] = None THEN FALSE
  ELSE nm[n][1] < Len(en) /\ en[nm[n][1] + 1]

NoOp == [op |-> "new", name |-> 0, c |-> None, en |-> FALSE]

IsSortedByPriority(s) ==
  \A i, j \in 1..Len(s) : i < j => s[i].prio <= s[j].prio

\* a sort that was left out: the controllers stay in slab order
sort_unstable_by_key_unsorted(cs) == {cs}

\* the orders sort_unstable_by_key(|c| c.priority()) may leave: ascending by
\* key, elements of equal key in any order
sort_unstable_by_key(cs) ==
  LET n == Len(cs)
      perms == {f \in [1..n -> 1..n] : \A i, j \in 1..n : f[i] = f[j] => i = j}
  IN {s \in {[i \in 1..n |-> cs[f[i]]] : f \in perms} : IsSortedByPriority(s)}

CMInit ==
  /\ buf = <<>>
  /\ last_free = 0
  /\ name_map = [n \in Names |-> None]
  /\ enabled = <<>>
  /\ nextId = 1
  /\ ret = None
  /\ runs = <<>>
  /\ param = 0
  /\ cmOp = NoOp
  /\ panicked = FALSE

Insert(n, p) ==
  /\ ~panicked
  /\ nextId <= MaxInserts
  /\ LET c == [id |-> nextId, prio |-> p]
         s1 == SimpleSlab_push([buf |-> buf, last_free |-> last_free], c)
         index == s1.ret
         en1 == IF Len(enabled) <= index
                THEN FixedBitSet_grow(enabled, Len(enabled) + 1) ELSE enabled
         old == name_map[n]
         s2 == IF old = None THEN [s1 EXCEPT !.ret = None]
               ELSE SimpleSlab_take(s1, old[1])
     IN IF index >= Len(en1)
        THEN \* FixedBitSet::set panics on an index out of range
             /\ panicked' = TRUE
             /\ buf' = s1.buf
             /\ last_free' = s1.last_free
             /\ enabled' = en1
             /\ UNCHANGED <<name_map, ret>>
        ELSE /\ enabled' = [en1 EXCEPT ![index + 1] = TRUE]
             /\ name_map' = [name_map EXCEPT ![n] = Some(index)]
             /\ buf' = s2.buf
             /\ last_free' = s2.last_free
             /\ ret' = s2.ret
             /\ UNCHANGED panicked
  /\ nextId' = nextId + 1
  /\ cmOp' = [op |-> "insert", name |-> n, c |-> Some([id |-> nextId, prio |-> p]), en |-> FALSE]
  /\ runs' = <<>>
  /\ UNCHANGED param
  /\ UNCHANGED <<umVars, moVars, extVars>>

Remove(n) ==
  /\ ~panicked
  /\ LET old == name_map[n]
         s2 == IF old = None
               THEN [buf |-> buf, last_free |-> last_free, ret |-> None]
               ELSE SimpleSlab_take([buf |-> buf, last_free |-> last_free], old[1])
     IN /\ name_map' = [name_map EXCEPT ![n] = None]
        /\ buf' = s2.buf
        /\ last_free' = s2.last_free
        /\ ret' = s2.ret
  /\ cmOp' = [op |-> "remove", name |-> n, c |-> None, en |-> FALSE]
  /\ runs' = <<>>
  /\ UNCHANGED <<enabled, nextId, param, panicked>>
  /\ UNCHANGED <<umVars, moVars, extVars>>

SetEnabled(n, e) ==
  /\ ~panicked
  /\ IF name_map[n] = None
     THEN UNCHANGED <<enabled, panicked>>
     ELSE IF name_map[n][1] < Len(enabled)
          THEN /\ enabled' = [enabled EXCEPT ![name_map[n][1] + 1] = e]
               /\ UNCHANGED panicked
          ELSE /\ panicked' = TRUE
               /\ UNCHANGED enabled
  /\ cmOp' = [op |-> "set_enabled", name |-> n, c |-> None, en |-> e]
  /\ runs' = <<>>
  /\ UNCHANGED <<buf, last_free, name_map, nextId, ret, param>>
  /\ UNCHANGED <<umVars, moVars, extVars>>

\* each test controller's update_parameters writes its own id to the parameter
UpdateEnabledControllers ==
  /\ ~panicked
  /\ LET collected == enabled_controllers_mut(buf, enabled) IN
     IF collected.panic
     THEN /\ panicked' = TRUE
          /\ runs' = <<>>
          /\ UNCHANGED param
     ELSE \E order \in sort_unstable_by_key(collected.cons) :
            /\ runs' = order
            /\ param' = IF order = <<>> THEN param ELSE order[Len(order)].id
            /\ UNCHANGED panicked
  /\ cmOp' = [op |-> "update", name |-> 0, c |-> None, en |-> FALSE]
  /\ UNCHANGED <<buf, last_free, name_map, enabled, nextId, ret>>
  /\ UNCHANGED <<umVars, moVars, extVars>>

CMNext ==
  \/ \E n \in Names, p \in Priorities : Insert(n, p)
  \/ \E n \in Names : Remove(n)
  \/ \E n \in Names, e \in BOOLEAN : SetEnabled(n, e)
  \/ UpdateEnabledControllers

\* ------------------------------------------------------------ core Model

Values == 0..MaxVal
Params == 1..NParams
Parts == 1..NParts
Drawables == 1..NDrawables

\* the parameter and the part a drawable's mesh and opacity derive from
ParamOf(d) == ((d - 1) % NParams) + 1
PartOf(d) == ((d - 1) % NParts) + 1

\* the native recomputation: which change flags it raises for drawable d
RecomputeFlags(m, d) ==
  (IF m.vertex_positions[d] # m.parameter_values[ParamOf(d)]
   THEN {"VERTEX_POSITIONS_CHANGED"} ELSE {})
  \cup (IF m.drawable_opacities[d] # m.part_opacities[PartOf(d)]
        THEN {"OPACITY_CHANGED"} ELSE {})

\* csmUpdateModel: recomputes the derived drawable state from the parameter
\* values and part opacities and raises the change flags of what changed
csmUpdateModel(m) ==
  [m EXCEPT !.vertex_positions = [d \in Drawables |-> m.parameter_values[ParamOf(d)]],
            !.drawable_opacities = [d \in Drawables |-> m.part_opacities[PartOf(d)]],
            !.dynamic_flags = [d \in Drawables |-> m.dynamic_flags[d] \cup RecomputeFlags(m, d)]]

\* csmResetDrawableDynamicFlags: clears every change flag (dynamic_flags holds
\* the change flags only; IS_VISIBLE is state, not a change flag)
csmResetDrawableDynamicFlags(m) ==
  [m EXCEPT !.dynamic_flags = [d \in Drawables |-> {}]]

Model_update(m) == csmResetDrawableDynamicFlags(csmUpdateModel(m))

Model_set_parameter_value(m, idx, val) ==
  [m EXCEPT !.parameter_values[idx + 1] = val]

Model_set_part_opacity(m, idx, val) ==
  [m EXCEPT !.part_opacities[idx + 1] = val]

\* a freshly initialised model: the given parameter values and part
\* opacities, derived drawable state not yet computed from them
Model_new(pv, po) ==
  [parameter_values |-> pv,
   part_opacities |-> po,
   vertex_positions |-> [d \in Drawables |-> 0],
   drawable_opacities |-> [d \in Drawables |-> 0],
   dynamic_flags |-> [d \in Drawables |-> {}]]

\* ------------------------------------------------------------- UserModel

\* load_parameters that restores nothing
UserModel_load_parameters_noop(m, snap) == m

\* save_parameters: the new snapshot
UserModel_save_parameters(m, snap) == m.parameter_values

\* load_parameters: the model after the copy
UserModel_load_parameters(m, snap) == [m EXCEPT !.parameter_values = snap]

UMInit ==
  /\ \E pv \in [Params -> Values], po \in [Parts -> Values] : model = Model_new(pv, po)
  /\ parameter_snapshot = model.parameter_values
  /\ umOp = "new"
  /\ saved = None
  /\ dirty = FALSE
  /\ recomputed = [d \in Drawables |-> {}]

SetParameterValue(i, v) ==
  /\ model' = Model_set_parameter_value(model, i, v)
  /\ umOp' = "set_parameter_value"
  /\ dirty' = FALSE
  /\ recomputed' = [d \in Drawables |-> {}]
  /\ UNCHANGED <<parameter_snapshot, saved>>
  /\ UNCHANGED <<cmVars, moVars, extVars>>

SetPartOpacity(i, v) ==
  /\ model' = Model_set_part_opacity(model, i, v)
  /\ umOp' = "set_part_opacity"
  /\ dirty' = FALSE
  /\ recomputed' = [d \in Drawables |-> {}]
  /\ UNCHANGED <<parameter_snapshot, saved>>
  /\ UNCHANGED <<cmVars, moVars, extVars>>

SaveParameters ==
  /\ parameter_snapshot' = UserModel_save_parameters(model, parameter_snapshot)
  /\ saved' = Some([parameter_values |-> model.parameter_values,
                    part_opacities |-> model.part_opacities])
  /\ umOp' = "save_parameters"
  /\ dirty' = FALSE
  /\ UNCHANGED <<model, recomputed>>
  /\ UNCHANGED <<cmVars, moVars, extVars>>

LoadParameters ==
  /\ model' = UserModel_load_parameters(model, parameter_snapshot)
  /\ dirty' = (model.parameter_values # parameter_snapshot)
  /\ umOp' = "load_parameters"
  /\ UNCHANGED <<parameter_snapshot, saved, recomputed>>
  /\ UNCHANGED <<cmVars, moVars, extVars>>

SwapParameters ==
  /\ model' = [model EXCEPT !.parameter_values = parameter_snapshot]
  /\ parameter_snapshot' = model.parameter_values
  /\ saved' = None
  /\ umOp' = "swap_parameters"
  /\ dirty' = FALSE
  /\ UNCHANGED recomputed
  /\ UNCHANGED <<cmVars, moVars, extVars>>

ModelUpdate ==
  /\ model' = Model_update(model)
  /\ recomputed' = [d \in Drawables |-> RecomputeFlags(model, d)]
  /\ umOp' = "update"
  /\ dirty' = FALSE
  /\ UNCHANGED <<parameter_snapshot, saved>>
  /\ UNCHANGED <<cmVars, moVars, extVars>>

\* the snapshot operations of the UserModel, with direct writes to its model
UMNext ==
  \/ \E i \in 0..(NParams - 1), v \in Values : SetParameterValue(i, v)
  \/ \E i \in 0..(NParts - 1), v \in Values : SetPartOpacity(i, v)
  \/ SaveParameters
  \/ LoadParameters
  \/ SwapParameters

\* the core Model alone: direct writes and update()
ModelNext ==
  \/ \E i \in 0..(NParams - 1), v \in Values : SetParameterValue(i, v)
  \/ \E i \in 0..(NParts - 1), v \in Values : SetPartOpacity(i, v)
  \/ ModelUpdate

\* ---------------------------------------------------------------- Motion

Motion_new(duration, looped) ==
  [duration |-> duration, looped |-> looped, playing |-> FALSE, current_time |-> 0]

Motion_set_looped(m, looped) == [m EXCEPT !.looped = looped]

Motion_play(m) == [m EXCEPT !.playing = TRUE]

Motion_pause(m) == [m EXCEPT !.playing = FALSE]

Motion_stop(m) == [m EXCEPT !.playing = FALSE, !.current_time = 0]

\* a tick that rewinds at the end of a motion that does not loop
Motion_tick_rewinds(m, delta_time) ==
  IF ~m.playing THEN m
  ELSE LET t == m.current_time + delta_time IN
       IF m.duration <= t
       THEN IF m.looped
            THEN [m EXCEPT !.current_time = t - (t \div m.duration) * m.duration]
            ELSE [m EXCEPT !.current_time = 0, !.playing = FALSE]
       ELSE [m EXCEPT !.current_time = t]

\* a tick that wraps a looped motion by one duration only
Motion_tick_wraps_once(m, delta_time) ==
  IF ~m.playing THEN m
  ELSE LET t == m.current_time + delta_time IN
       IF m.duration <= t
       THEN IF m.looped
            THEN [m EXCEPT !.current_time = t - m.duration]
            ELSE [m EXCEPT !.current_time = m.duration, !.playing = FALSE]
       ELSE [m EXCEPT !.current_time = t]

\* a tick that does not look at the playing flag
Motion_tick_always(m, delta_time) ==
  LET t == m.current_time + delta_time IN
  IF m.duration <= t
  THEN IF m.looped
       THEN [m EXCEPT !.current_time = t - (t \div m.duration) * m.duration]
       ELSE [m EXCEPT !.current_time = m.duration, !.playing = FALSE]
  ELSE [m EXCEPT !.current_time = t]

\* a tick that leaves a motion that does not loop playing at its end
Motion_tick_keeps_playing(m, delta_time) ==
  IF ~m.playing THEN m
  ELSE LET t == m.current_time + delta_time IN
       IF m.duration <= t
       THEN IF m.looped
            THEN [m EXCEPT !.current_time = t - (t \div m.duration) * m.duration]
            ELSE [m EXCEPT !.current_time = m.duration]
       ELSE [m EXCEPT !.current_time = t]

Motion_tick(m, delta_time) ==
  IF ~m.playing THEN m
  ELSE LET t == m.current_time + delta_time IN
       IF m.duration <= t
       THEN IF m.looped
            THEN [m EXCEPT !.current_time = t - (t \div m.duration) * m.duration]
            ELSE [m EXCEPT !.current_time = m.duration, !.playing = FALSE]
       ELSE [m EXCEPT !.current_time = t]

MoInit ==
  /\ \E d \in 1..MaxDuration, l \in BOOLEAN : motion = Motion_new(d, l)
  /\ moOp = "new"
  /\ moDt = 0
  /\ moPrev = motion

SetLooped(l) ==
  /\ motion' = Motion_set_looped(motion, l)
  /\ moOp' = "set_looped"
  /\ moDt' = 0
  /\ moPrev' = motion
  /\ UNCHANGED <<cmVars, umVars, extVars>>

Play ==
  /\ motion' = Motion_play(motion)
  /\ moOp' = "play"
  /\ moDt' = 0
  /\ moPrev' = motion
  /\ UNCHANGED <<cmVars, umVars, extVars>>

Pause ==
  /\ motion' = Motion_pause(motion)
  /\ moOp' = "pause"
  /\ moDt' = 0
  /\ moPrev' = motion
  /\ UNCHANGED <<cmVars, umVars, extVars>>

Stop ==
  /\ motion' = Motion_stop(motion)
  /\ moOp' = "stop"
  /\ moDt' = 0
  /\ moPrev' = motion
  /\ UNCHANGED <<cmVars, umVars, extVars>>

\* delta_time is any f64; the time is kept from running below -MaxBack
Tick(dt) ==
  /\ Motion_tick(motion, dt).current_time >= -MaxBack
  /\ motion' = Motion_tick(motion, dt)
  /\ moOp' = "tick"
  /\ moDt' = dt
  /\ moPrev' = motion
  /\ UNCHANGED <<cmVars, umVars, extVars>>

MoNext ==
  \/ \E l \in BOOLEAN : SetLooped(l)
  \/ Play
  \/ Pause
  \/ Stop
  \/ \E dt \in (-MaxBack)..MaxDt : Tick(dt)

\* ---------------------------------------------------- rational numbers

\* an f32 value that arithmetic produces is an exact fraction <<n, d>> in
\* lowest terms with d > 0
RECURSIVE GCD(_, _)
GCD(a, b) == IF b = 0 THEN a ELSE GCD(b, a % b)

Abs(a) == IF a < 0 THEN -a ELSE a

Rat(n, d) ==
  LET g == GCD(Abs(n), Abs(d))
      sg == IF d < 0 THEN -1 ELSE 1
  IN <<(sg * n) \div g, (sg * d) \div g>>

RAdd(a, b) == Rat(a[1] * b[2] + b[1] * a[2], a[2] * b[2])
RSub(a, b) == Rat(a[1] * b[2] - b[1] * a[2], a[2] * b[2])
RMul(a, b) == Rat(a[1] * b[1], a[2] * b[2])
RLe(a, b) == a[1] * b[2] <= b[1] * a[2]
RMin(a, b) == IF RLe(a, b) THEN a ELSE b
RMax(a, b) == IF RLe(a, b) THEN b ELSE a

R0 == Rat(0, 1)
R1 == Rat(1, 1)

\* --------------------------------------------------------------- EyeBlink

Timings == 1..MaxTiming
MaxCycle == MaxTiming + MaxBack

Max(a, b) == IF a >= b THEN a ELSE b

EyeBlink_new(ids, blink_interval, closed_time, opening_time, closing_time) ==
  [parameter_ids |-> ids,
   current_state |-> "Open",
   next_cycle |-> blink_interval,
   blink_interval |-> blink_interval,
   closed_time |-> closed_time,
   opening_time |-> opening_time,
   closing_time |-> closing_time]

EyeBlink_set_timings(e, blink_interval, closed_time, opening_time, closing_time) ==
  LET bi == Max(blink_interval, closed_time + opening_time + closing_time) IN
  [e EXCEPT !.blink_interval = bi,
            !.next_cycle = bi,
            !.closed_time = closed_time,
            !.opening_time = opening_time,
            !.closing_time = closing_time]

\* update_parameters that leaves Open for Closed, past Closing
EyeBlink_update_parameters_skips(e, delta) ==
  LET nc == e.next_cycle - delta
      stay == [e EXCEPT !.next_cycle = nc]
      move(s, t) == [e EXCEPT !.current_state = s, !.next_cycle = nc + t]
  IN CASE e.current_state = "Open" ->
            IF nc <= 0
            THEN [eye |-> move("Closed", e.closed_time), val |-> R1]
            ELSE [eye |-> stay, val |-> R1]
       [] e.current_state = "Closed" ->
            IF nc <= 0
            THEN [eye |-> move("Opening", e.opening_time), val |-> R0]
            ELSE [eye |-> stay, val |-> R0]
       [] e.current_state = "Opening" ->
            IF nc <= 0
            THEN [eye |-> move("Open", e.blink_interval), val |-> R1]
            ELSE [eye |-> stay, val |-> Rat(e.opening_time - nc, e.opening_time)]
       [] e.current_state = "Closing" ->
            IF nc <= 0
            THEN [eye |-> move("Closed", e.closed_time), val |-> R0]
            ELSE [eye |-> stay, val |-> Rat(nc, e.closing_time)]

\* update_parameters whose Opening value is the remaining share of the
\* opening time, not the elapsed share
EyeBlink_update_parameters_remaining(e, delta) ==
  LET nc == e.next_cycle - delta
      stay == [e EXCEPT !.next_cycle = nc]
      move(s, t) == [e EXCEPT !.current_state = s, !.next_cycle = nc + t]
  IN CASE e.current_state = "Open" ->
            IF nc <= 0
            THEN [eye |-> move("Closing", e.closing_time), val |-> R1]
            ELSE [eye |-> stay, val |-> R1]
       [] e.current_state = "Closed" ->
            IF nc <= 0
            THEN [eye |-> move("Opening", e.opening_time), val |-> R0]
            ELSE [eye |-> stay, val |-> R0]
       [] e.current_state = "Opening" ->
            IF nc <= 0
            THEN [eye |-> move("Open", e.blink_interval), val |-> R1]
            ELSE [eye |-> stay, val |-> Rat(nc, e.opening_time)]
       [] e.current_state = "Closing" ->
            IF nc <= 0
            THEN [eye |-> move("Closed", e.closed_time), val |-> R0]
            ELSE [eye |-> stay, val |-> Rat(nc, e.closing_time)]

\* update_parameters: the EyeBlink after the call and the value it writes.
\* The countdown is decremented first; the arm of the state held at the
\* call runs once, and on expiry adds the next duration to the countdown.
EyeBlink_update_parameters(e, delta) ==
  LET nc == e.next_cycle - delta
      stay == [e EXCEPT !.next_cycle = nc]
      move(s, t) == [e EXCEPT !.current_state = s, !.next_cycle = nc + t]
  IN CASE e.current_state = "Open" ->
            IF nc <= 0
            THEN [eye |-> move("Closing", e.closing_time), val |-> R1]
            ELSE [eye |-> stay, val |-> R1]
       [] e.current_state = "Closed" ->
            IF nc <= 0
            THEN [eye |-> move("Opening", e.opening_time), val |-> R0]
            ELSE [eye |-> stay, val |-> R0]
       [] e.current_state = "Opening" ->
            IF nc <= 0
            THEN [eye |-> move("Open", e.blink_interval), val |-> R1]
            ELSE [eye |-> stay, val |-> Rat(e.opening_time - nc, e.opening_time)]
       [] e.current_state = "Closing" ->
            IF nc <= 0
            THEN [eye |-> move("Closed", e.closed_time), val |-> R0]
            ELSE [eye |-> stay, val |-> Rat(nc, e.closing_time)]

\* EyeBlink::new with any positive timings over any set of parameter indices
EBInit ==
  /\ \E ids \in SUBSET (0..(NParams - 1)), bi \in Timings, ct \in Timings,
        ot \in Timings, clt \in Timings :
       eye = EyeBlink_new(ids, bi, ct, ot, clt)
  /\ ebModel = [i \in Params |-> R0]
  /\ ebLog = [op |-> "new", delta |-> 0, prev |-> eye, val |-> None, prevVal |-> None,
              ticked |-> TRUE]

\* Controller::update_parameters of the EyeBlink: the value goes to every
\* configured parameter.  delta is any f32; the countdown is kept within
\* -MaxDt .. MaxCycle.
EBUpdateParameters(delta) ==
  LET r == EyeBlink_update_parameters(eye, delta) IN
  /\ r.eye.next_cycle <= MaxCycle
  /\ r.eye.next_cycle >= -MaxDt
  /\ eye' = r.eye
  /\ ebModel' = [i \in Params |-> IF (i - 1) \in eye.parameter_ids THEN r.val ELSE ebModel[i]]
  /\ ebLog' = [op |-> "update_parameters", delta |-> delta, prev |-> eye,
               val |-> Some(r.val), prevVal |-> ebLog.val,
               ticked |-> ebLog.ticked /\ delta >= 0]
  /\ UNCHANGED ebRest

\* set_timings with any positive timings
EBSetTimings(blink_interval, closed_time, opening_time, closing_time) ==
  /\ eye' = EyeBlink_set_timings(eye, blink_interval, closed_time, opening_time, closing_time)
  /\ ebLog' = [ebLog EXCEPT !.op = "set_timings", !.delta = 0, !.prev = eye]
  /\ UNCHANGED ebModel
  /\ UNCHANGED ebRest

\* ticks forward in time and changes of the timings, in any order
EBTNext ==
  \/ \E delta \in 0..MaxDt : EBUpdateParameters(delta)
  \/ \E bi \in Timings, ct \in Timings, ot \in Timings, clt \in Timings :
       EBSetTimings(bi, ct, ot, clt)

EBNext ==
  \E delta \in (-MaxBack)..MaxDt : EBUpdateParameters(delta)

\* ------------------------------------------------------------- Expression

BlendTypes == {"Add", "Multiply", "Overwrite"}
BlendValues == {Rat(-1, 1), Rat(2, 1)}
Weights == {Rat(n, 2) : n \in (-1)..3}

\* one (index, blend_type, value) entry; the index is one of the model's
\* parameter indices, as from_exp3_json resolves it
Entries == [id : 0..(NParams - 1), blend_type : BlendTypes, value : BlendValues]
EntryLists == UNION {[1..n -> Entries] : n \in 0..NParams}

\* Moc::parameter_min / parameter_max / parameter_default
Moc_parameter_min == [i \in Params |-> R0]
Moc_parameter_max == [i \in Params |-> Rat(MaxVal, 1)]

Expression_new(parameters) == [parameters |-> parameters]

\* the loop of apply over the entries left, on the parameter values pv
RECURSIVE Expression_apply_loop(_, _, _)
Expression_apply_loop(ps, pv, weight) ==
  IF ps = <<>> THEN pv
  ELSE LET en == Head(ps)
           model_value == pv[en.id + 1]
           nv == CASE en.blend_type = "Add" -> RAdd(RMul(en.value, weight), model_value)
                   [] en.blend_type = "Multiply" ->
                        RMul(model_value, RAdd(RMul(RSub(en.value, R1), weight), R1))
                   [] en.blend_type = "Overwrite" -> RMul(en.value, weight)
       IN Expression_apply_loop(Tail(ps), [pv EXCEPT ![en.id + 1] = nv], weight)

\* apply that blends with the weight as passed
Expression_apply_unclamped(e, m, weight) ==
  [m EXCEPT !.parameter_values = Expression_apply_loop(e.parameters, m.parameter_values, weight)]

\* apply: the model after it
Expression_apply(e, m, weight) ==
  LET w == RMax(RMin(weight, R1), R0) IN
  [m EXCEPT !.parameter_values = Expression_apply_loop(e.parameters, m.parameter_values, w)]

\* any Expression over the parameters of a model whose values start inside
\* the range of the Moc
ExInit ==
  /\ \E ps \in EntryLists : expr = Expression_new(ps)
  /\ \E v0 \in Values :
       exModel = [parameter_values |-> [i \in Params |-> Rat(v0, 1)],
                  part_opacities |-> [i \in Parts |-> R1]]
  /\ exLog = [op |-> "new", weight |-> R0, prev |-> exModel]

\* weight is any f32; one application is followed per model
ExApply(weight) ==
  /\ exLog.op = "new"
  /\ exModel' = Expression_apply(expr, exModel, weight)
  /\ exLog' = [op |-> "apply", weight |-> weight, prev |-> exModel]
  /\ UNCHANGED expr
  /\ UNCHANGED exRest

ExNext ==
  \E weight \in Weights : ExApply(weight)

\* ------------------------------------------------------ core Moc and Model

\* what the native core reports about a non-empty blob of bytes: its
\* version (csmGetMocVersion), whether csmReviveMocInPlace returns a moc,
\* and the mask count of each drawable of that moc (none, or MaxMasks)
Blobs ==
  [moc_version : 0..(csmMocVersion_40 + 1),
   revives : BOOLEAN,
   drawable_mask_counts : [Drawables -> {0, MaxMasks}]]

csmGetLatestMocVersion == csmMocVersion_40
csmGetMocVersion(data) == data.moc_version
csmReviveMocInPlace(data) == data.revives

\* new_moc that rejects the latest version too
Moc_new_moc_strict(data) ==
  LET moc_ver == csmGetMocVersion(data) IN
  IF csmGetLatestMocVersion <= moc_ver
  THEN [result |-> "MocVersionMismatch", found |-> Some(moc_ver), allocs |-> 0, revivals |-> 0]
  ELSE IF ~csmReviveMocInPlace(data)
       THEN [result |-> "InvalidMocData", found |-> None, allocs |-> 1, revivals |-> 1]
       ELSE [result |-> "Ok", found |-> None, allocs |-> 1, revivals |-> 1]

\* Moc::new_moc: the result, with the buffers allocated and the revivals
\* attempted on the way
Moc_new_moc(data) ==
  LET moc_ver == csmGetMocVersion(data) IN
  IF csmGetLatestMocVersion < moc_ver
  THEN [result |-> "MocVersionMismatch", found |-> Some(moc_ver), allocs |-> 0, revivals |-> 0]
  ELSE IF ~csmReviveMocInPlace(data)
       THEN [result |-> "InvalidMocData", found |-> None, allocs |-> 1, revivals |-> 1]
       ELSE [result |-> "Ok", found |-> None, allocs |-> 1, revivals |-> 1]

\* Moc::init_new_model: a fresh csmModel memory, as csmInitializeModelInPlace
\* leaves it
Moc_init_new_model(moc) ==
  Model_new([i \in Params |-> 0], [i \in Parts |-> 0])

\* the Moc that Moc::new builds from the revived memory
Moc_new(data) == [drawable_mask_counts |-> data.drawable_mask_counts]

\* Model::is_masked
Model_is_masked(moc) == \E d \in Drawables : moc.drawable_mask_counts[d] <= 0

\* clone that hands out the memory of the original
Model_clone_aliased(h, ms, i) ==
  [heap |-> h, models |-> Append(ms, [mem |-> ms[i].mem, moc |-> ms[i].moc])]

\* Clone for Model: a new memory from the shared Moc, then both slices
\* copied into it
Model_clone(h, ms, i) ==
  LET model_mem == Moc_init_new_model(mocs[ms[i].moc])
      copy == [model_mem EXCEPT !.parameter_values = h[ms[i].mem].parameter_values,
                                !.part_opacities = h[ms[i].mem].part_opacities]
  IN [heap |-> Append(h, copy),
      models |-> Append(ms, [mem |-> Len(h) + 1, moc |-> ms[i].moc])]

\* no blob loaded yet
CoreInit ==
  /\ mocs = <<>>
  /\ heap = <<>>
  /\ models = <<>>
  /\ coreLog = [op |-> "none", writes |-> 0]

\* Model::from_bytes; one blob is loaded, further models are clones
FromBytes(data) ==
  LET r == Moc_new_moc(data) IN
  /\ models = <<>>
  /\ IF r.result = "Ok"
     THEN /\ mocs' = Append(mocs, Moc_new(data))
          /\ heap' = Append(heap, Moc_init_new_model(Moc_new(data)))
          /\ models' = Append(models, [mem |-> Len(heap) + 1, moc |-> Len(mocs) + 1])
     ELSE UNCHANGED <<mocs, heap, models>>
  /\ coreLog' = [op |-> "from_bytes", data |-> data, result |-> r.result, found |-> r.found,
                 allocs |-> r.allocs, revivals |-> r.revivals, writes |-> coreLog.writes]
  /\ UNCHANGED coreRest

Clone(i) ==
  /\ i \in 1..Len(models)
  /\ Len(models) < MaxModels
  /\ heap' = Model_clone(heap, models, i).heap
  /\ models' = Model_clone(heap, models, i).models
  /\ coreLog' = [op |-> "clone", target |-> i, writes |-> coreLog.writes]
  /\ UNCHANGED mocs
  /\ UNCHANGED coreRest

\* set_parameter_value on model i; MaxWrites writes are followed per run
CoreSetParameterValue(i, idx, val) ==
  /\ i \in 1..Len(models)
  /\ coreLog.writes < MaxWrites
  /\ heap' = [heap EXCEPT ![models[i].mem] = Model_set_parameter_value(@, idx, val)]
  /\ coreLog' = [op |-> "set_parameter_value", target |-> i, writes |-> coreLog.writes + 1]
  /\ UNCHANGED <<mocs, models>>
  /\ UNCHANGED coreRest

\* set_part_opacity on model i
CoreSetPartOpacity(i, idx, val) ==
  /\ i \in 1..Len(models)
  /\ coreLog.writes < MaxWrites
  /\ heap' = [heap EXCEPT ![models[i].mem] = Model_set_part_opacity(@, idx, val)]
  /\ coreLog' = [op |-> "set_part_opacity", target |-> i, writes |-> coreLog.writes + 1]
  /\ UNCHANGED <<mocs, models>>
  /\ UNCHANGED coreRest

IsMasked(i) ==
  /\ i \in 1..Len(models)
  /\ coreLog' = [op |-> "is_masked", target |-> i, ret |-> Model_is_masked(mocs[models[i].moc]),
                 writes |-> coreLog.writes]
  /\ UNCHANGED <<mocs, heap, models>>
  /\ UNCHANGED coreRest

\* the values written are the two ends of the value range
CoreNext ==
  \/ \E data \in Blobs : FromBytes(data)
  \/ \E i \in 1..MaxModels : Clone(i)
  \/ \E i \in 1..MaxModels, idx \in 0..(NParams - 1), val \in {0, MaxVal} :
       CoreSetParameterValue(i, idx, val)
  \/ \E i \in 1..MaxModels, idx \in 0..(NParts - 1), val \in {0, MaxVal} :
       CoreSetPartOpacity(i, idx, val)
  \/ \E i \in 1..MaxModels : IsMasked(i)

\* ------------------------------------------------------------ core logger

Threads == 1..NThreads

\* compare_and_swap that stores whatever the current value is
compare_and_swap_blind(cur, expected, new) == [state |-> new, prev |-> expected]

\* compare_and_swap that reports INITIALIZED whenever it stores nothing
compare_and_swap_hasty(cur, expected, new) ==
  [state |-> IF cur = expected THEN new ELSE cur,
   prev |-> IF cur = expected THEN cur ELSE INITIALIZED]

\* AtomicUsize::compare_and_swap: the value stored and the value returned
compare_and_swap(cur, expected, new) ==
  [state |-> IF cur = expected THEN new ELSE cur, prev |-> cur]

LgInit ==
  /\ LOG_STATE = UNINITIALIZED
  /\ LOGGER = None
  /\ registered = 0
  /\ pc = [t \in Threads |-> "idle"]
  /\ calls = [t \in Threads |-> 0]
  /\ lgLog = [won |-> <<>>, installed |-> <<>>, returned |-> {}, spun |-> {}]

\* thread t enters set_core_logger with a logger of its own
LgCall(t) ==
  /\ pc[t] = "idle"
  /\ calls[t] < MaxCalls
  /\ calls' = [calls EXCEPT ![t] = @ + 1]
  /\ pc' = [pc EXCEPT ![t] = "swap"]
  /\ UNCHANGED <<LOG_STATE, LOGGER, registered, lgLog>>
  /\ UNCHANGED lgRest

\* the match on STATE.compare_and_swap(UNINITIALIZED, INITIALIZING)
LgSwap(t) ==
  LET r == compare_and_swap(LOG_STATE, UNINITIALIZED, INITIALIZING) IN
  /\ pc[t] = "swap"
  /\ LOG_STATE' = r.state
  /\ IF r.prev = UNINITIALIZED
     THEN /\ pc' = [pc EXCEPT ![t] = "install"]
          /\ lgLog' = [lgLog EXCEPT !.won = Append(@, <<t, calls[t]>>)]
     ELSE IF r.prev = INITIALIZING
     THEN /\ pc' = [pc EXCEPT ![t] = "spin"]
          /\ lgLog' = [lgLog EXCEPT !.spun = @ \cup {<<t, calls[t]>>}]
     ELSE /\ pc' = [pc EXCEPT ![t] = "idle"]
          /\ lgLog' = [lgLog EXCEPT !.returned = @ \cup {<<t, calls[t]>>}]
  /\ UNCHANGED <<LOGGER, registered, calls>>
  /\ UNCHANGED lgRest

\* LOGGER = Box::leak(Box::new(logger))
LgInstall(t) ==
  /\ pc[t] = "install"
  /\ LOGGER' = Some(<<t, calls[t]>>)
  /\ lgLog' = [lgLog EXCEPT !.installed = Append(@, <<t, calls[t]>>)]
  /\ pc' = [pc EXCEPT ![t] = "register"]
  /\ UNCHANGED <<LOG_STATE, registered, calls>>
  /\ UNCHANGED lgRest

\* ffi::csmSetLogFunction(Some(core_logger))
LgRegister(t) ==
  /\ pc[t] = "register"
  /\ registered' = registered + 1
  /\ pc' = [pc EXCEPT ![t] = "store"]
  /\ UNCHANGED <<LOG_STATE, LOGGER, calls, lgLog>>
  /\ UNCHANGED lgRest

\* STATE.store(INITIALIZED), and the return of the winning call
LgStore(t) ==
  /\ pc[t] = "store"
  /\ LOG_STATE' = INITIALIZED
  /\ pc' = [pc EXCEPT ![t] = "idle"]
  /\ lgLog' = [lgLog EXCEPT !.returned = @ \cup {<<t, calls[t]>>}]
  /\ UNCHANGED <<LOGGER, registered, calls>>
  /\ UNCHANGED lgRest

\* one turn of while STATE.load() == INITIALIZING {}
LgSpin(t) ==
  /\ pc[t] = "spin"
  /\ IF LOG_STATE = INITIALIZING
     THEN UNCHANGED <<pc, lgLog>>
     ELSE /\ pc' = [pc EXCEPT ![t] = "idle"]
          /\ lgLog' = [lgLog EXCEPT !.returned = @ \cup {<<t, calls[t]>>}]
  /\ UNCHANGED <<LOG_STATE, LOGGER, registered, calls>>
  /\ UNCHANGED lgRest

LgNext ==
  \/ \E t \in Threads : LgCall(t)
  \/ \E t \in Threads : LgSwap(t)
  \/ \E t \in Threads : LgInstall(t)
  \/ \E t \in Threads : LgRegister(t)
  \/ \E t \in Threads : LgStore(t)
  \/ \E t \in Threads : LgSpin(t)

\* ------------------------------------------- UserModel: its controllers

\* fixedbitset::FixedBitSet, a sequence of bits
fixedbitset_grow(set, bits) ==
  IF bits > Len(set) THEN set \o [k \in 1..(bits - Len(set)) |-> FALSE] ELSE set

fixedbitset_set(set, bit, en) == [set EXCEPT ![bit + 1] = en]

\* ones(): the indices of the set bits, ascending
RECURSIVE fixedbitset_ones_from(_, _)
fixedbitset_ones_from(set, bit) ==
  IF bit >= Len(set) THEN <<>>
  ELSE (IF set[bit + 1] THEN <<bit>> ELSE <<>>) \o fixedbitset_ones_from(set, bit + 1)

fixedbitset_ones(set) == fixedbitset_ones_from(set, 0)

\* the controller a test hands to add_controller: it writes its number to
\* parameter 0
TestController(k) == [id |-> k]
TestController_update_parameters(c, m, delta) ==
  Model_set_parameter_value(m, 0, Rat(c.id % (MaxVal + 1), 1))

UserModel_add_controller(ctrls, rev, en, name, c) ==
  LET idx == Len(ctrls) IN
  [controllers |-> Append(ctrls, c),
   controllers_rev_map |-> [rev EXCEPT ![name] = Some(idx)],
   controllers_enabled |-> fixedbitset_grow(en, idx + 1),
   ret |-> idx]

UserModel_controller_enable(ctrls, en, idx, enabled_) ==
  IF idx < Len(ctrls) THEN fixedbitset_set(en, idx, enabled_) ELSE en

\* the for loop of update over the slots left of controllers_enabled.ones()
RECURSIVE UserModel_run_controllers(_, _, _, _)
UserModel_run_controllers(ctrls, slots, m, delta) ==
  IF slots = <<>> THEN m
  ELSE UserModel_run_controllers(ctrls, Tail(slots),
         TestController_update_parameters(ctrls[Head(slots) + 1], m, delta), delta)

\* update that walks the enabled slots from the last to the first
UserModel_update_descending(m, snap, exps, cur, weight, ctrls, en, delta) ==
  LET loaded == UserModel_load_parameters(m, snap)
      snap2 == UserModel_save_parameters(loaded, snap)
      blended == IF cur # None /\ exps[cur[1]] # None
                 THEN Expression_apply(exps[cur[1]][1], loaded, weight)
                 ELSE loaded
      ones == fixedbitset_ones(en)
      slots == [k \in 1..Len(ones) |-> ones[Len(ones) + 1 - k]]
      driven == UserModel_run_controllers(ctrls, slots, blended, delta)
  IN [model |-> Model_update(driven), parameter_snapshot |-> snap2, runs |-> slots,
      before_update |-> driven]

\* update that skips load_parameters and goes on from the values the model
\* holds
UserModel_update_carrying(m, snap, exps, cur, weight, ctrls, en, delta) ==
  LET loaded == m
      snap2 == snap
      blended == IF cur # None /\ exps[cur[1]] # None
                 THEN Expression_apply(exps[cur[1]][1], loaded, weight)
                 ELSE loaded
      slots == fixedbitset_ones(en)
      driven == UserModel_run_controllers(ctrls, slots, blended, delta)
  IN [model |-> Model_update(driven), parameter_snapshot |-> snap2, runs |-> slots,
      before_update |-> driven]

\* update: load_parameters, save_parameters, the current expression if it is
\* set and loaded, the enabled controllers in the order of ones(), then
\* Model::update
UserModel_update(m, snap, exps, cur, weight, ctrls, en, delta) ==
  LET loaded == UserModel_load_parameters(m, snap)
      snap2 == UserModel_save_parameters(loaded, snap)
      blended == IF cur # None /\ exps[cur[1]] # None
                 THEN Expression_apply(exps[cur[1]][1], loaded, weight)
                 ELSE loaded
      slots == fixedbitset_ones(en)
      driven == UserModel_run_controllers(ctrls, slots, blended, delta)
  IN [model |-> Model_update(driven), parameter_snapshot |-> snap2, runs |-> slots,
      before_update |-> driven]

\* UserModel::new over a model with every parameter at one value and every
\* part opaque: no controller, no expression, weight 1
UCInit ==
  /\ \E v \in Values :
       model = [Model_new([p \in Params |-> Rat(v, 1)], [p \in Parts |-> R1])
                  EXCEPT !.vertex_positions = [d \in Drawables |-> R0],
                         !.drawable_opacities = [d \in Drawables |-> R0]]
  /\ parameter_snapshot = model.parameter_values
  /\ umOp = "new"
  /\ saved = None
  /\ dirty = FALSE
  /\ recomputed = [d \in Drawables |-> {}]
  /\ controllers = <<>>
  /\ controllers_rev_map = [n \in Names |-> None]
  /\ controllers_enabled = <<>>
  /\ expressions = [n \in Names |-> None]
  /\ current_expression = None
  /\ expression_weight = R1
  /\ ucLog = [op |-> "new", ret |-> None, runs |-> <<>>, switched_on |-> {}]

\* add_controller(name, the next test controller)
AddController(name) ==
  LET r == UserModel_add_controller(controllers, controllers_rev_map, controllers_enabled,
                                    name, TestController(Len(controllers)))
  IN /\ Len(controllers) < MaxControllers
     /\ controllers' = r.controllers
     /\ controllers_rev_map' = r.controllers_rev_map
     /\ controllers_enabled' = r.controllers_enabled
     /\ ucLog' = [ucLog EXCEPT !.op = "add_controller", !.ret = Some(r.ret), !.runs = <<>>]
     /\ UNCHANGED <<expressions, current_expression, expression_weight>>
     /\ UNCHANGED umVars
     /\ UNCHANGED ucRest

ControllerEnable(idx, enabled_) ==
  /\ controllers_enabled' =
       UserModel_controller_enable(controllers, controllers_enabled, idx, enabled_)
  /\ ucLog' = [op |-> "controller_enable", ret |-> None, runs |-> <<>>,
               switched_on |-> IF enabled_ /\ idx < Len(controllers)
                               THEN ucLog.switched_on \cup {idx}
                               ELSE ucLog.switched_on]
  /\ UNCHANGED <<controllers, controllers_rev_map, expressions, current_expression,
                 expression_weight>>
  /\ UNCHANGED umVars
  /\ UNCHANGED ucRest

UserUpdate(delta) ==
  LET r == UserModel_update(model, parameter_snapshot, expressions, current_expression,
                            expression_weight, controllers, controllers_enabled, delta)
  IN /\ model' = r.model
     /\ parameter_snapshot' = r.parameter_snapshot
     /\ umOp' = "user_update"
     /\ saved' = Some([parameter_values |-> r.parameter_snapshot,
                       part_opacities |-> model.part_opacities])
     /\ dirty' = (model.parameter_values # parameter_snapshot)
     /\ recomputed' = [d \in Drawables |-> RecomputeFlags(r.before_update, d)]
     /\ ucLog' = [ucLog EXCEPT !.op = "update", !.ret = None, !.runs = r.runs]
     /\ UNCHANGED <<controllers, controllers_rev_map, controllers_enabled, expressions,
                    current_expression, expression_weight>>
     /\ UNCHANGED ucRest


\* set_expression: the name if an expression is loaded under it, else None
UserModel_set_expression(exps, exp) == IF exps[exp] # None THEN Some(exp) ELSE None

UserModel_set_expression_weight(weight) == RMax(RMin(weight, R1), R0)

\* a UserModel with one controller added and one expression loaded, under
\* the first name: one entry on the last parameter, of any blend type and value
UFInit ==
  /\ \E v \in Values :
       model = [Model_new([p \in Params |-> Rat(v, 1)], [p \in Parts |-> R1])
                  EXCEPT !.vertex_positions = [d \in Drawables |-> R0],
                         !.drawable_opacities = [d \in Drawables |-> R0]]
  /\ parameter_snapshot = model.parameter_values
  /\ umOp = "new"
  /\ saved = None
  /\ dirty = FALSE
  /\ recomputed = [d \in Drawables |-> {}]
  /\ LET r == UserModel_add_controller(<<>>, [n \in Names |-> None], <<>>, MaxNames,
                                       TestController(MaxVal))
     IN /\ controllers = r.controllers
        /\ controllers_rev_map = r.controllers_rev_map
        /\ controllers_enabled = r.controllers_enabled
  /\ \E bt \in BlendTypes, bv \in BlendValues :
       expressions =
         [n \in Names |->
            IF n = 1
            THEN Some(Expression_new(<<[id |-> NParams - 1, blend_type |-> bt, value |-> bv]>>))
            ELSE None]
  /\ current_expression = None
  /\ expression_weight = R1
  /\ ucLog = [op |-> "new", ret |-> None, runs |-> <<>>, switched_on |-> {}]

UFSetExpression(exp) ==
  /\ current_expression' = UserModel_set_expression(expressions, exp)
  /\ ucLog' = [ucLog EXCEPT !.op = "set_expression", !.ret = None, !.runs = <<>>]
  /\ UNCHANGED <<controllers, controllers_rev_map, controllers_enabled, expressions,
                 expression_weight>>
  /\ UNCHANGED umVars
  /\ UNCHANGED ucRest

UFSetExpressionWeight(weight) ==
  /\ expression_weight' = UserModel_set_expression_weight(weight)
  /\ ucLog' = [ucLog EXCEPT !.op = "set_expression_weight", !.ret = None, !.runs = <<>>]
  /\ UNCHANGED <<controllers, controllers_rev_map, controllers_enabled, expressions,
                 current_expression>>
  /\ UNCHANGED umVars
  /\ UNCHANGED ucRest

\* a value written straight to the model, between two updates
UFSetParameterValue(i, v) ==
  /\ SetParameterValue(i, Rat(v, 1))

\* save_parameters, followed up to the first update
UFSaveParameters ==
  /\ saved = None
  /\ SaveParameters

UFNext ==
  \/ \E exp \in Names : UFSetExpression(exp)
  \/ \E weight \in {Rat(1, 2), Rat(MaxVal + 1, 1)} : UFSetExpressionWeight(weight)
  \/ \E i \in 0..(NParams - 1) : UFSetParameterValue(i, MaxVal)
  \/ UFSaveParameters
  \/ \E enabled_ \in BOOLEAN : ControllerEnable(0, enabled_)
  \/ UserUpdate(MaxDt)

UCNext ==
  \/ \E name \in Names : AddController(name)
  \/ \E idx \in 0..MaxControllers, enabled_ \in BOOLEAN : ControllerEnable(idx, enabled_)
  \/ \E delta \in {0, MaxDt} : UserUpdate(delta)

\* ----------------------------------------------------- Motion: its curves

SegmentPoint(t, v) == [time |-> t, value |-> v]

\* segment_parser: the segments of one curve of a motion3.json, from its
\* first point and the (type, time, value) items after it; each segment
\* starts at the point the one before it ended at.  The control points of a
\* Bezier item hold the values of its two end points.
RECURSIVE segment_parser(_, _)
segment_parser(last_point, items) ==
  IF items = <<>> THEN <<>>
  ELSE LET it == Head(items)
           next_point == SegmentPoint(it.time, it.value)
           seg == CASE it.type = "Linear" ->
                         [kind |-> "Linear", p0 |-> last_point, p1 |-> next_point]
                    [] it.type = "Stepped" ->
                         [kind |-> "Stepped", p0 |-> last_point, t1 |-> it.time]
                    [] it.type = "InverseStepped" ->
                         [kind |-> "InverseStepped", t0 |-> last_point.time, p1 |-> next_point]
                    [] it.type = "Bezier" ->
                         [kind |-> "Bezier", p0 |-> last_point,
                          p1 |-> SegmentPoint(last_point.time, last_point.value),
                          p2 |-> SegmentPoint(it.time, it.value),
                          p3 |-> next_point]
       IN <<seg>> \o segment_parser(next_point, Tail(items))

\* the value channel of lerp_points
lerp_points(v0, v1, t) == RAdd(RMul(RSub(v1, v0), t), v0)

\* segment_intersects with the end of the range left out
segment_intersects_half_open(seg, t) ==
  CASE seg.kind = "Linear" -> seg.p0.time <= t /\ t < seg.p1.time
    [] seg.kind = "Bezier" -> seg.p0.time <= t /\ t < seg.p3.time
    [] seg.kind = "Stepped" -> seg.p0.time <= t /\ t < seg.t1
    [] seg.kind = "InverseStepped" -> seg.t0 <= t /\ t < seg.p1.time

segment_intersects(seg, t) ==
  CASE seg.kind = "Linear" -> seg.p0.time <= t /\ t <= seg.p1.time
    [] seg.kind = "Bezier" -> seg.p0.time <= t /\ t <= seg.p3.time
    [] seg.kind = "Stepped" -> seg.p0.time <= t /\ t <= seg.t1
    [] seg.kind = "InverseStepped" -> seg.t0 <= t /\ t <= seg.p1.time

\* segment_interpolate that holds the value of the first point of a Linear
\* segment up to its end
segment_interpolate_held(seg, t) ==
  CASE seg.kind = "Linear" -> seg.p0.value
    [] seg.kind = "Bezier" -> seg.p0.value
    [] seg.kind = "Stepped" -> seg.p0.value
    [] seg.kind = "InverseStepped" -> seg.p1.value

\* segment_interpolate at a time the segment intersects; a segment of no
\* length has k = 0/0, which no comparison holds of
segment_interpolate(seg, t) ==
  CASE seg.kind = "Linear" ->
         IF seg.p1.time = seg.p0.time THEN seg.p0.value
         ELSE LET k == Rat(t - seg.p0.time, seg.p1.time - seg.p0.time) IN
              IF ~RLe(k, R0) THEN RAdd(RMul(RSub(seg.p1.value, seg.p0.value), k), seg.p0.value)
              ELSE seg.p0.value
    [] seg.kind = "Bezier" ->
         IF seg.p3.time = seg.p0.time THEN seg.p0.value
         ELSE LET k0 == Rat(t - seg.p0.time, seg.p3.time - seg.p0.time)
                  k == IF RLe(k0, R0) /\ k0 # R0 THEN R0 ELSE k0
                  p01 == lerp_points(seg.p0.value, seg.p1.value, k)
                  p12 == lerp_points(seg.p1.value, seg.p2.value, k)
                  p23 == lerp_points(seg.p2.value, seg.p3.value, k)
                  p012 == lerp_points(p01, p12, k)
                  p123 == lerp_points(p12, p23, k)
              IN lerp_points(p012, p123, k)
    [] seg.kind = "Stepped" -> seg.p0.value
    [] seg.kind = "InverseStepped" -> seg.p1.value

\* the ids of the parameters and of the parts of the model
Model_parameter_ids == [i \in Params |-> ToString(i - 1)]
Model_part_ids == [i \in Parts |-> ToString(i - 1)]

\* iter().position(|id2| *id2 == id) over a list of ids
Position(ids, id) ==
  IF \E i \in DOMAIN ids : ids[i] = id
  THEN Some((CHOOSE i \in DOMAIN ids : ids[i] = id /\ \A j \in 1..(i - 1) : ids[j] # id) - 1)
  ELSE None

\* the inner loop of update: the index of the first segment of the curve
\* that intersects, 0 if none does
RECURSIVE Motion_first_segment(_, _, _)
Motion_first_segment(segs, k, current) ==
  IF k > Len(segs) THEN 0
  ELSE IF ~segment_intersects(segs[k], current) THEN Motion_first_segment(segs, k + 1, current)
  ELSE k

\* the match on the target that falls back to parameter 0 and part 0 for
\* an id the model has not
Motion_apply_curve_fallback(curve, seg, current, m) ==
  LET value == segment_interpolate(seg, current) IN
  CASE curve.target = "Model" -> m
    [] curve.target = "PartOpacity" ->
         LET part == Position(Model_part_ids, curve.id) IN
         IF part # None THEN [m EXCEPT !.part_opacities[part[1] + 1] = value]
         ELSE [m EXCEPT !.part_opacities[1] = value]
    [] curve.target = "Parameter" ->
         LET par == Position(Model_parameter_ids, curve.id) IN
         IF par # None THEN [m EXCEPT !.parameter_values[par[1] + 1] = value]
         ELSE [m EXCEPT !.parameter_values[1] = value]
    [] OTHER -> m

\* the body of the inner loop for the segment found: the match on the
\* target, and what it writes to the model
Motion_apply_curve(curve, seg, current, m) ==
  LET value == segment_interpolate(seg, current) IN
  CASE curve.target = "Model" -> m
    [] curve.target = "PartOpacity" ->
         LET part == Position(Model_part_ids, curve.id) IN
         IF part # None THEN [m EXCEPT !.part_opacities[part[1] + 1] = value] ELSE m
    [] curve.target = "Parameter" ->
         LET par == Position(Model_parameter_ids, curve.id) IN
         IF par # None THEN [m EXCEPT !.parameter_values[par[1] + 1] = value] ELSE m
    [] OTHER -> m

\* update over the curves left: the model after them, and per curve the
\* segment taken with its value
RECURSIVE Motion_update_loop(_, _, _)
Motion_update_loop(cs, current, m) ==
  IF cs = <<>> THEN [model |-> m, taken |-> <<>>]
  ELSE LET curve == Head(cs)
           k == Motion_first_segment(curve.segments, 1, current)
           m2 == IF k = 0 THEN m ELSE Motion_apply_curve(curve, curve.segments[k], current, m)
           rest == Motion_update_loop(Tail(cs), current, m2)
       IN [model |-> rest.model,
           taken |-> <<IF k = 0 THEN None
                       ELSE Some([segment |-> k,
                                  value |-> segment_interpolate(curve.segments[k], current)])>>
                     \o rest.taken]

\* Motion::update; it returns Ok(()) after the loop, whatever the curves were
Motion_update(mo, cs, m) ==
  LET r == Motion_update_loop(cs, mo.current_time, m) IN
  [model |-> r.model, taken |-> r.taken, result |-> "Ok"]

SegmentTypes == {"Linear", "Bezier", "Stepped", "InverseStepped"}
PointValues == {Rat(0, 1), Rat(MaxVal, 1)}

\* the key times of a curve: ascending times within the duration
RECURSIVE IsAscending(_)
IsAscending(ts) == Len(ts) < 2 \/ (ts[1] < ts[2] /\ IsAscending(Tail(ts)))

KeyTimes == {ts \in UNION {[1..n -> 0..MaxDuration] : n \in 2..(MaxDuration + 1)} : IsAscending(ts)}

\* the segments of the curves of a motion3.json
ParsedSegments ==
  UNION {{segment_parser(SegmentPoint(ts[1], vs[1]),
                         [k \in 1..(Len(ts) - 1) |->
                            [type |-> ty[k], time |-> ts[k + 1], value |-> vs[k + 1]]]) :
            vs \in [1..Len(ts) -> PointValues], ty \in [1..(Len(ts) - 1) -> SegmentTypes]} :
         ts \in KeyTimes}

\* the target and id pairs of a curve: each parameter, each part, an id the
\* model has not, the ids of the Model target, a target update does not know
CurveTargets ==
  ({"Parameter"} \X ({Model_parameter_ids[i] : i \in Params} \cup {"Other"}))
  \cup ({"PartOpacity"} \X ({Model_part_ids[i] : i \in Parts} \cup {"Other"}))
  \cup ({"Model"} \X {"EyeBlink", "LipSync", "Opacity", "Other"})
  \cup {<<"Other", "Other">>}

Curve(target, id, segments) == [target |-> target, id |-> id, segments |-> segments]

\* a curve on parameter 0 that holds MaxVal over the whole duration
HoldCurve ==
  Curve("Parameter", Model_parameter_ids[1],
        segment_parser(SegmentPoint(0, Rat(MaxVal, 1)),
                       <<[type |-> "Stepped", time |-> MaxDuration, value |-> Rat(MaxVal, 1)]>>))

\* a motion of one parsed curve, alone or after HoldCurve, played up to any
\* time of its duration, and a model still at 0
MUInit ==
  /\ \E tg \in CurveTargets, segs \in ParsedSegments, held \in BOOLEAN :
       curves = (IF held THEN <<HoldCurve>> ELSE <<>>) \o <<Curve(tg[1], tg[2], segs)>>
  /\ \E t \in 0..MaxDuration :
       motion = Motion_tick(Motion_play(Motion_new(MaxDuration, FALSE)), t)
  /\ moOp = "tick"
  /\ moDt = motion.current_time
  /\ moPrev = Motion_play(Motion_new(MaxDuration, FALSE))
  /\ muModel = [parameter_values |-> [i \in Params |-> R0],
                part_opacities |-> [i \in Parts |-> R0]]
  /\ muLog = [op |-> "new", taken |-> <<>>, prev |-> muModel]

MotionUpdate ==
  LET r == Motion_update(motion, curves, muModel) IN
  /\ muModel' = r.model
  /\ muLog' = [op |-> "update", taken |-> r.taken, prev |-> muModel, result |-> r.result]
  /\ UNCHANGED curves
  /\ UNCHANGED muRest

MUNext == MotionUpdate


\* ------------------------------------------------------ util::SimpleSlab

MaxPushes == 4

util_SimpleSlab_new == [buf |-> <<>>, last_free |-> 0]

\* push that leaves last_free at the length before the push
util_SimpleSlab_push_stale(s, t) ==
  LET len == Len(s.buf) IN
  IF len <= s.last_free
  THEN [slab |-> [buf |-> Append(s.buf, Some(t)), last_free |-> len], ret |-> len]
  ELSE LET b2 == [s.buf EXCEPT ![s.last_free + 1] = Some(t)]
           pos == PositionNone(SubSeq(b2, s.last_free + 1, len))
       IN [slab |-> [buf |-> b2,
                     last_free |-> IF pos = None THEN len ELSE pos[1] + s.last_free],
           ret |-> s.last_free]

\* push: the slab after it and the index returned
util_SimpleSlab_push(s, t) ==
  LET len == Len(s.buf) IN
  IF len <= s.last_free
  THEN [slab |-> [buf |-> Append(s.buf, Some(t)), last_free |-> len + 1], ret |-> len]
  ELSE LET b2 == [s.buf EXCEPT ![s.last_free + 1] = Some(t)]
           pos == PositionNone(SubSeq(b2, s.last_free + 1, len))
       IN [slab |-> [buf |-> b2,
                     last_free |-> IF pos = None THEN len ELSE pos[1] + s.last_free],
           ret |-> s.last_free]

\* take: the slab after it and the element returned
util_SimpleSlab_take(s, idx) ==
  LET lf == IF idx < s.last_free THEN idx ELSE s.last_free IN
  IF idx < Len(s.buf)
  THEN [slab |-> [buf |-> [s.buf EXCEPT ![idx + 1] = None], last_free |-> lf],
        ret |-> s.buf[idx + 1]]
  ELSE [slab |-> [buf |-> s.buf, last_free |-> lf], ret |-> None]

util_SimpleSlab_get(s, idx) == IF idx < Len(s.buf) THEN s.buf[idx + 1] ELSE None

\* SimpleSlab::new, with no ExpressionController around it
SlabInit ==
  /\ ec_expressions = util_SimpleSlab_new
  /\ ec_name_map = [n \in Names |-> None]
  /\ current_expr = None
  /\ ec_weight = R1
  /\ ecModel = [parameter_values |-> [i \in Params |-> R0],
                part_opacities |-> [i \in Parts |-> R1]]
  /\ ecLog = [op |-> "new", pushes |-> 0, prev |-> ec_expressions, ret |-> None]

\* push of a new element; the elements are numbered in push order
SlabPush ==
  LET r == util_SimpleSlab_push(ec_expressions, ecLog.pushes + 1) IN
  /\ ecLog.pushes < MaxPushes
  /\ ec_expressions' = r.slab
  /\ ecLog' = [op |-> "push", pushes |-> ecLog.pushes + 1, prev |-> ec_expressions, ret |-> Some(r.ret),
               t |-> ecLog.pushes + 1]
  /\ UNCHANGED <<ec_name_map, current_expr, ec_weight, ecModel>>
  /\ UNCHANGED ecRest

SlabTake(idx) ==
  LET r == util_SimpleSlab_take(ec_expressions, idx) IN
  /\ ec_expressions' = r.slab
  /\ ecLog' = [op |-> "take", pushes |-> ecLog.pushes, prev |-> ec_expressions, ret |-> r.ret,
               idx |-> idx]
  /\ UNCHANGED <<ec_name_map, current_expr, ec_weight, ecModel>>
  /\ UNCHANGED ecRest

SlabNext ==
  \/ SlabPush
  \/ \E idx \in 0..MaxPushes : SlabTake(idx)

ECQuiet == SlabInit


\* ------------------------------------------------------ ExpressionController

\* the expression of the k-th register call: it overwrites parameter 0 with k
ECExpression(k) ==
  Expression_new(<<[id |-> 0, blend_type |-> "Overwrite", value |-> Rat(k, 1)]>>)

ExpressionController_new ==
  [expressions |-> util_SimpleSlab_new,
   name_map |-> [n \in Names |-> None],
   current_expr |-> None,
   weight |-> R1]

\* register: the controller after it and the expression returned
ExpressionController_register(ec, name, exp) ==
  LET pushed == util_SimpleSlab_push(ec.expressions, exp)
      old == ec.name_map[name]
      taken == IF old = None THEN [slab |-> pushed.slab, ret |-> None]
               ELSE util_SimpleSlab_take(pushed.slab, old[1])
  IN [ec |-> [ec EXCEPT !.expressions = taken.slab, !.name_map[name] = Some(pushed.ret)],
      ret |-> taken.ret]

ExpressionController_set_expression(ec, name) ==
  [ec EXCEPT !.current_expr = ec.name_map[name]]

ExpressionController_set_expression_weight(ec, weight) ==
  [ec EXCEPT !.weight = RMax(RMin(weight, R1), R0)]

\* update_parameters: the model after it and the expression applied, if any
ExpressionController_update_parameters(ec, m) ==
  IF ec.current_expr = None THEN [model |-> m, applied |-> None]
  ELSE LET e == util_SimpleSlab_get(ec.expressions, ec.current_expr[1]) IN
       IF e = None THEN [model |-> m, applied |-> None]
       ELSE [model |-> Expression_apply(e[1], m, ec.weight), applied |-> e]

\* the ExpressionController the variables hold
ECSelf ==
  [expressions |-> ec_expressions, name_map |-> ec_name_map,
   current_expr |-> current_expr, weight |-> ec_weight]

\* ExpressionController::new and a model at 0
ECInit ==
  /\ ec_expressions = ExpressionController_new.expressions
  /\ ec_name_map = ExpressionController_new.name_map
  /\ current_expr = ExpressionController_new.current_expr
  /\ ec_weight = ExpressionController_new.weight
  /\ ecModel = [parameter_values |-> [i \in Params |-> R0],
                part_opacities |-> [i \in Parts |-> R1]]
  /\ ecLog = [op |-> "new", pushes |-> 0, selected |-> None, applied |-> None, ret |-> None]

\* register(name, the next expression); MaxPushes register calls are followed
Register(name) ==
  LET r == ExpressionController_register(ECSelf, name, ECExpression(ecLog.pushes + 1)) IN
  /\ ecLog.pushes < MaxPushes
  /\ ec_expressions' = r.ec.expressions
  /\ ec_name_map' = r.ec.name_map
  /\ current_expr' = r.ec.current_expr
  /\ ec_weight' = r.ec.weight
  /\ ecLog' = [ecLog EXCEPT !.op = "register", !.pushes = @ + 1, !.ret = r.ret,
                            !.applied = None]
  /\ UNCHANGED ecModel
  /\ UNCHANGED ecRest

\* set_expression(name); a name that is registered is remembered with the log
SetExpression(name) ==
  LET r == ExpressionController_set_expression(ECSelf, name) IN
  /\ current_expr' = r.current_expr
  /\ ecLog' = [ecLog EXCEPT !.op = "set_expression",
                            !.selected = IF ec_name_map[name] # None THEN Some(name) ELSE None,
                            !.ret = None, !.applied = None]
  /\ UNCHANGED <<ec_expressions, ec_name_map, ec_weight, ecModel>>
  /\ UNCHANGED ecRest

SetExpressionWeight(weight) ==
  LET r == ExpressionController_set_expression_weight(ECSelf, weight) IN
  /\ ec_weight' = r.weight
  /\ ecLog' = [ecLog EXCEPT !.op = "set_expression_weight", !.ret = None, !.applied = None]
  /\ UNCHANGED <<ec_expressions, ec_name_map, current_expr, ecModel>>
  /\ UNCHANGED ecRest

\* Controller::update_parameters of the ExpressionController
ECUpdateParameters ==
  LET r == ExpressionController_update_parameters(ECSelf, ecModel) IN
  /\ ecModel' = r.model
  /\ ecLog' = [ecLog EXCEPT !.op = "update_parameters", !.applied = r.applied, !.ret = None]
  /\ UNCHANGED <<ec_expressions, ec_name_map, current_expr, ec_weight>>
  /\ UNCHANGED ecRest

ECNext ==
  \/ \E name \in Names : Register(name)
  \/ \E name \in Names : SetExpression(name)
  \/ \E weight \in Weights : SetExpressionWeight(weight)
  \/ ECUpdateParameters


\* ------------------------------------------------------ BitIter on its own

MaxBlocks == 2

\* the bit patterns tried at each length: no bit, every bit, every other
\* bit, the last bit alone
BitPatterns(n) ==
  {[i \in 1..n |-> FALSE], [i \in 1..n |-> TRUE], [i \in 1..n |-> i % 2 = 1],
   [i \in 1..n |-> i = n]}

BINew == [op |-> "new", it |-> BitIter_from_bitset(<<>>), items |-> <<>>,
          done |-> FALSE, panic |-> FALSE]

\* a FixedBitSet of any length up to one bit past MaxBlocks blocks
BIInit ==
  /\ \E n \in 0..(MaxBlocks * BITS + 1) : bitset \in BitPatterns(n)
  /\ biLog = BINew

\* BitIter::from_bitset(set)
BitIterFromBitset ==
  /\ biLog.op = "new"
  /\ biLog' = [biLog EXCEPT !.op = "from_bitset", !.it = BitIter_from_bitset(bitset)]
  /\ UNCHANGED bitset
  /\ UNCHANGED biRest

\* one step of a for loop over the BitIter: next() is called until it gives
\* None or panics in the unreachable!() branch
BitIterNext ==
  /\ biLog.op \in {"from_bitset", "next"}
  /\ ~biLog.done
  /\ LET r == BitIter_next(biLog.it) IN
     biLog' = [op |-> "next", it |-> r.it,
               items |-> IF r.item = None THEN biLog.items
                         ELSE Append(biLog.items, r.item[1]),
               done |-> r.item = None,
               panic |-> r.unreachable]
  /\ UNCHANGED bitset
  /\ UNCHANGED biRest

BINext ==
  \/ BitIterFromBitset
  \/ BitIterNext

BIQuiet ==
  /\ bitset = <<>>
  /\ biLog = BINew

\* ------------------------------------------------------- specifications

\* the state of a component that a specification leaves alone
CMQuiet == CMInit

UMQuiet ==
  /\ model = Model_new([i \in Params |-> 0], [i \in Parts |-> 0])
  /\ parameter_snapshot = [i \in Params |-> 0]
  /\ umOp = "new"
  /\ saved = None
  /\ dirty = FALSE
  /\ recomputed = [d \in Drawables |-> {}]

MoQuiet ==
  /\ motion = Motion_new(1, FALSE)
  /\ moOp = "new"
  /\ moDt = 0
  /\ moPrev = motion

EBQuiet ==
  /\ eye = EyeBlink_new({}, 1, 1, 1, 1)
  /\ ebModel = [i \in Params |-> R0]
  /\ ebLog = [op |-> "new", delta |-> 0, prev |-> eye, val |-> None, prevVal |-> None,
              ticked |-> TRUE]

ExQuiet ==
  /\ expr = Expression_new(<<>>)
  /\ exModel = [parameter_values |-> [i \in Params |-> R0],
                part_opacities |-> [i \in Parts |-> R1]]
  /\ exLog = [op |-> "new", weight |-> R0, prev |-> exModel]

CoreQuiet == CoreInit

LgQuiet == LgInit

UCQuiet ==
  /\ controllers = <<>>
  /\ controllers_rev_map = [n \in Names |-> None]
  /\ controllers_enabled = <<>>
  /\ expressions = [n \in Names |-> None]
  /\ current_expression = None
  /\ expression_weight = R1
  /\ ucLog = [op |-> "new", ret |-> None, runs |-> <<>>, switched_on |-> {}]

MUQuiet ==
  /\ curves = <<>>
  /\ muModel = [parameter_values |-> [i \in Params |-> R0],
                part_opacities |-> [i \in Parts |-> R0]]
  /\ muLog = [op |-> "new", taken |-> <<>>, prev |-> muModel]

ExtQuiet == EBQuiet /\ ExQuiet /\ CoreQuiet /\ LgQuiet /\ UCQuiet /\ MUQuiet /\ ECQuiet /\ BIQuiet

InitCM == CMInit /\ UMQuiet /\ MoQuiet /\ ExtQuiet

SpecCM == InitCM /\ [][CMNext]_vars

InitUM == UMInit /\ CMQuiet /\ MoQuiet /\ ExtQuiet

SpecUM == InitUM /\ [][UMNext]_vars

\* a core Model with any initial values, not wrapped in a UserModel
ModelInit ==
  /\ \E pv \in [Params -> Values], po \in [Parts -> Values] : model = Model_new(pv, po)
  /\ parameter_snapshot = [i \in Params |-> 0]
  /\ umOp = "new"
  /\ saved = None
  /\ dirty = FALSE
  /\ recomputed = [d \in Drawables |-> {}]

InitModel == ModelInit /\ CMQuiet /\ MoQuiet /\ ExtQuiet

SpecModel == InitModel /\ [][ModelNext]_vars

InitMotion == MoInit /\ CMQuiet /\ UMQuiet /\ ExtQuiet

SpecMotion == InitMotion /\ [][MoNext]_vars

InitEB == EBInit /\ CMQuiet /\ UMQuiet /\ MoQuiet /\ ExQuiet /\ CoreQuiet /\ LgQuiet /\ UCQuiet /\ MUQuiet /\ ECQuiet /\ BIQuiet

SpecEB == InitEB /\ [][EBNext]_vars

SpecEBT == InitEB /\ [][EBTNext]_vars

InitEx == ExInit /\ CMQuiet /\ UMQuiet /\ MoQuiet /\ EBQuiet /\ CoreQuiet /\ LgQuiet /\ UCQuiet /\ MUQuiet /\ ECQuiet /\ BIQuiet

SpecEx == InitEx /\ [][ExNext]_vars

InitCore == CoreInit /\ CMQuiet /\ UMQuiet /\ MoQuiet /\ EBQuiet /\ ExQuiet /\ LgQuiet /\ UCQuiet /\ MUQuiet /\ ECQuiet /\ BIQuiet

SpecCore == InitCore /\ [][CoreNext]_vars

InitLg == LgInit /\ CMQuiet /\ UMQuiet /\ MoQuiet /\ EBQuiet /\ ExQuiet /\ CoreQuiet /\ UCQuiet /\ MUQuiet /\ ECQuiet /\ BIQuiet

SpecLg == InitLg /\ [][LgNext]_vars

\* every thread inside a call is scheduled again: a step of its call that
\* stays possible is taken
LgFairness ==
  \A t \in Threads :
    WF_vars(LgSwap(t) \/ LgInstall(t) \/ LgRegister(t) \/ LgStore(t) \/ LgSpin(t))

SpecLgFair == InitLg /\ [][LgNext]_vars /\ LgFairness

InitUC == UCInit /\ CMQuiet /\ MoQuiet /\ EBQuiet /\ ExQuiet /\ CoreQuiet /\ LgQuiet /\ MUQuiet /\ ECQuiet /\ BIQuiet

SpecUC == InitUC /\ [][UCNext]_vars

InitUF == UFInit /\ CMQuiet /\ MoQuiet /\ EBQuiet /\ ExQuiet /\ CoreQuiet /\ LgQuiet /\ MUQuiet /\ ECQuiet /\ BIQuiet

SpecUF == InitUF /\ [][UFNext]_vars


\* a motion of one curve on parameter 0 that is one Linear segment, of any
\* length down to none, played up to any time of its duration
LinInit ==
  /\ \E t0 \in 0..MaxDuration, t1 \in 0..MaxDuration, v0 \in PointValues, v1 \in PointValues :
       /\ t0 <= t1
       /\ curves = <<Curve("Parameter", Model_parameter_ids[1],
                           segment_parser(SegmentPoint(t0, v0),
                                          <<[type |-> "Linear", time |-> t1, value |-> v1]>>))>>
  /\ \E t \in 0..MaxDuration :
       motion = Motion_tick(Motion_play(Motion_new(MaxDuration, FALSE)), t)
  /\ moOp = "tick"
  /\ moDt = motion.current_time
  /\ moPrev = Motion_play(Motion_new(MaxDuration, FALSE))
  /\ muModel = [parameter_values |-> [i \in Params |-> R0],
                part_opacities |-> [i \in Parts |-> R0]]
  /\ muLog = [op |-> "new", taken |-> <<>>, prev |-> muModel]

InitLin ==
  LinInit /\ CMQuiet /\ UMQuiet /\ EBQuiet /\ ExQuiet /\ CoreQuiet /\ LgQuiet /\ UCQuiet
    /\ ECQuiet /\ BIQuiet

SpecLin == InitLin /\ [][MUNext]_vars


\* a motion of one curve of a single segment on any target, alone, after
\* HoldCurve or before it, played up to any time of its duration
SkipInit ==
  /\ \E tg \in CurveTargets, segs \in {s \in ParsedSegments : Len(s) = 1},
        held \in {"no", "before", "after"} :
       curves = (IF held = "before" THEN <<HoldCurve>> ELSE <<>>)
                \o <<Curve(tg[1], tg[2], segs)>>
                \o (IF held = "after" THEN <<HoldCurve>> ELSE <<>>)
  /\ \E t \in 0..MaxDuration :
       motion = Motion_tick(Motion_play(Motion_new(MaxDuration, FALSE)), t)
  /\ moOp = "tick"
  /\ moDt = motion.current_time
  /\ moPrev = Motion_play(Motion_new(MaxDuration, FALSE))
  /\ muModel = [parameter_values |-> [i \in Params |-> R0],
                part_opacities |-> [i \in Parts |-> R0]]
  /\ muLog = [op |-> "new", taken |-> <<>>, prev |-> muModel]

InitSkip ==
  SkipInit /\ CMQuiet /\ UMQuiet /\ EBQuiet /\ ExQuiet /\ CoreQuiet /\ LgQuiet /\ UCQuiet
    /\ ECQuiet /\ BIQuiet

SpecSkip == InitSkip /\ [][MUNext]_vars

InitMU ==
  MUInit /\ CMQuiet /\ UMQuiet /\ EBQuiet /\ ExQuiet /\ CoreQuiet /\ LgQuiet /\ UCQuiet
    /\ ECQuiet /\ BIQuiet

SpecMU == InitMU /\ [][MUNext]_vars

InitBI ==
  BIInit /\ CMQuiet /\ UMQuiet /\ MoQuiet /\ EBQuiet /\ ExQuiet /\ CoreQuiet /\ LgQuiet
    /\ UCQuiet /\ MUQuiet /\ ECQuiet

SpecBI == InitBI /\ [][BINext]_vars

InitSlab ==
  SlabInit /\ CMQuiet /\ UMQuiet /\ MoQuiet /\ EBQuiet /\ ExQuiet /\ CoreQuiet /\ LgQuiet
    /\ UCQuiet /\ MUQuiet /\ BIQuiet

SpecSlab == InitSlab /\ [][SlabNext]_vars

InitEC ==
  ECInit /\ CMQuiet /\ UMQuiet /\ MoQuiet /\ EBQuiet /\ ExQuiet /\ CoreQuiet /\ LgQuiet
    /\ UCQuiet /\ MUQuiet /\ BIQuiet

SpecEC == InitEC /\ [][ECNext]_vars

\* ------------------------------------------------- ControllerMap: claims

RunCount(c) == Cardinality({i \in 1..Len(runs) : runs[i].id = c.id})

\* C1: after any sequence of insert, remove and set_enabled calls,
\* update_enabled_controllers runs exactly once every registered controller
\* whose is_enabled(name) is true and runs no controller whose
\* is_enabled(name) is false.
C1_RunsExactlyTheEnabled ==
  (cmOp.op = "update" /\ ~panicked) =>
    \A n \in Names :
      ControllerMap_get(name_map, buf, n) # None =>
        RunCount(ControllerMap_get(name_map, buf, n)[1]) = (IF ControllerMap_is_enabled(name_map, enabled, n) THEN 1 ELSE 0)

\* C2: insert(name, c) with a name that is not registered returns None, leaves
\* c retrievable under name and enabled, and leaves every controller stored
\* under another name retrievable under its own name.
C2_InsertNewName ==
  [][(cmOp'.op = "insert" /\ ~panicked' /\ name_map[cmOp'.name] = None) =>
       /\ ret' = None
       /\ ControllerMap_get(name_map', buf', cmOp'.name) = cmOp'.c
       /\ ControllerMap_is_enabled(name_map', enabled', cmOp'.name)
       /\ \A m \in Names \ {cmOp'.name} :
            ControllerMap_get(name_map, buf, m) # None => ControllerMap_get(name_map', buf', m) = ControllerMap_get(name_map, buf, m)]_vars

\* C3: insert(name, c) with a name that is registered returns the controller
\* stored under that name before the call, and get(name) is c afterwards.
C3_InsertReplaces ==
  [][(cmOp'.op = "insert" /\ ~panicked' /\ ControllerMap_get(name_map, buf, cmOp'.name) # None) =>
       /\ ret' = ControllerMap_get(name_map, buf, cmOp'.name)
       /\ ControllerMap_get(name_map', buf', cmOp'.name) = cmOp'.c]_vars

C5_TieByRegistrationOrder ==
  cmOp.op = "update" =>
    \A i, j \in 1..Len(runs) :
      (i < j /\ runs[i].prio = runs[j].prio) => runs[i].id < runs[j].id

\* ----------------------------------------------------- UserModel: claims

\* C6 as stated: save_parameters(), then mutations of parameter values and
\* part opacities, then load_parameters() restores the parameter values and
\* the part opacities the model had at the save.
C6_RestoresValuesAndOpacities ==
  (umOp = "load_parameters" /\ saved # None) =>
    /\ model.parameter_values = saved[1].parameter_values
    /\ model.part_opacities = saved[1].part_opacities

\* C6 amended: load_parameters() restores exactly the parameter values the
\* model had at the last save_parameters(); the part opacities are not in the
\* snapshot and load_parameters() leaves them as they are.
C6_RestoresValuesOnly ==
  [][(umOp' = "load_parameters" /\ saved # None) =>
       /\ model'.parameter_values = saved[1].parameter_values
       /\ model'.part_opacities = model.part_opacities]_vars

\* C6 witness: a load that found mutated parameter values and restored them,
\* with a part opacity that still differs from the one at the save.
C6_Witness ==
  /\ umOp = "load_parameters"
  /\ saved # None
  /\ dirty
  /\ model.parameter_values = saved[1].parameter_values
  /\ model.part_opacities # saved[1].part_opacities

\* C7: when update() returns, every change flag that this update's
\* recomputation set is still set in drawable_dynamic_flags().
C7_ChangeFlagsObservable ==
  umOp = "update" =>
    \A d \in Drawables : recomputed[d] \subseteq model.dynamic_flags[d]

\* -------------------------------------------------------- Motion: claims

\* C8: for a playing, non-looping Motion with duration D, tick(dt) with
\* current_time + dt >= D sets current_time to exactly D and playing to false.
C8_ClampsAtEnd ==
  (/\ moOp = "tick"
   /\ moPrev.playing
   /\ ~moPrev.looped
   /\ moPrev.current_time + moDt >= moPrev.duration) =>
    /\ motion.current_time = moPrev.duration
    /\ motion.duration = moPrev.duration
    /\ ~motion.playing

\* C8 witness: a tick of a playing, non-looping motion overshot the end.
C8_Witness ==
  /\ moOp = "tick"
  /\ moPrev.playing
  /\ ~moPrev.looped
  /\ moPrev.current_time + moDt > moPrev.duration
  /\ motion.current_time = moPrev.duration
  /\ ~motion.playing

\* C9 as stated: for a playing, looped Motion with duration D > 0, tick(dt)
\* with dt >= 0 leaves current_time = (previous current_time + dt) mod D and
\* the motion playing.
C9_WrapsModulo ==
  (/\ moOp = "tick"
   /\ moPrev.playing
   /\ moPrev.looped
   /\ moDt >= 0) =>
    /\ motion.current_time = (moPrev.current_time + moDt) % moPrev.duration
    /\ motion.playing

\* C9 amended: the same, for a Motion whose current_time is not negative
\* (a tick with a negative delta_time can leave it negative).
C9_WrapsModuloFromNonNegative ==
  (/\ moOp = "tick"
   /\ moPrev.playing
   /\ moPrev.looped
   /\ moPrev.current_time >= 0
   /\ moDt >= 0) =>
    /\ motion.current_time = (moPrev.current_time + moDt) % moPrev.duration
    /\ motion.current_time >= 0
    /\ motion.current_time < moPrev.duration
    /\ motion.playing

\* C9 witness: a tick of a playing, looped motion ran past the end by a whole
\* duration or more and wrapped.
C9_Witness ==
  /\ moOp = "tick"
  /\ moPrev.playing
  /\ moPrev.looped
  /\ moPrev.current_time > 0
  /\ moDt > 0
  /\ moPrev.current_time + moDt >= 2 * moPrev.duration
  /\ motion.current_time = (moPrev.current_time + moDt) % moPrev.duration
  /\ motion.playing

\* C10: tick(dt) changes nothing while the motion is not playing; play() and
\* pause() change only the playing flag; stop() sets playing to false and
\* current_time to 0; a new Motion is not playing, with current_time 0.
C10_PlaybackStateChanges ==
  /\ (moOp = "tick" /\ ~moPrev.playing) => motion = moPrev
  /\ moOp = "play" => motion = [moPrev EXCEPT !.playing = TRUE]
  /\ moOp = "pause" => motion = [moPrev EXCEPT !.playing = FALSE]
  /\ moOp = "stop" => motion = [moPrev EXCEPT !.playing = FALSE, !.current_time = 0]
  /\ moOp = "new" => (~motion.playing /\ motion.current_time = 0)

\* C10 witness: a tick with a positive delta_time left a motion alone that was
\* paused part of the way through.
C10_Witness ==
  /\ moOp = "tick"
  /\ ~moPrev.playing
  /\ moPrev.current_time > 0
  /\ moPrev.current_time < moPrev.duration
  /\ moDt > 0
  /\ motion = moPrev

\* ------------------------------------------------------ EyeBlink: claims

C11_Successor(s) ==
  CASE s = "Open" -> "Closing"
    [] s = "Closing" -> "Closed"
    [] s = "Closed" -> "Opening"
    [] s = "Opening" -> "Open"

\* C11: an update_parameters call leaves the state where it was or moves it
\* to its immediate successor in Open -> Closing -> Closed -> Opening -> Open,
\* and moves it only when the countdown less delta is <= 0, whatever delta is.
C11_NoStateSkipped ==
  ebLog.op = "update_parameters" =>
    \/ eye.current_state = ebLog.prev.current_state
    \/ /\ eye.current_state = C11_Successor(ebLog.prev.current_state)
       /\ ebLog.prev.next_cycle - ebLog.delta <= 0

\* a call whose delta overshoots the whole of the next state's duration
C11_Witness ==
  /\ ebLog.op = "update_parameters"
  /\ eye.current_state = C11_Successor(ebLog.prev.current_state)
  /\ eye.next_cycle < 0

\* C12: an EyeBlink with positive timings that has only been ticked with
\* delta >= 0 writes 1 in Open and 0 in Closed, a value not above the last
\* one in Closing and not below the last one in Opening, always in [0, 1].
C12_ValueFollowsState ==
  (ebLog.op = "update_parameters" /\ ebLog.ticked) =>
    LET v == ebLog.val[1]
        s0 == ebLog.prev.current_state
    IN /\ (s0 = "Open" \/ eye.current_state = "Open") => v = R1
       /\ (s0 = "Closed" \/ eye.current_state = "Closed") => v = R0
       /\ (s0 = "Closing" /\ ebLog.prevVal # None) => RLe(v, ebLog.prevVal[1])
       /\ (s0 = "Opening" /\ ebLog.prevVal # None) => RLe(ebLog.prevVal[1], v)
       /\ RLe(R0, v) /\ RLe(v, R1)
       /\ \A i \in eye.parameter_ids : ebModel[i + 1] = v

\* a tick inside Opening that writes a value strictly between 0 and 1 and
\* strictly above the value of the tick before it
C12_Witness ==
  /\ ebLog.op = "update_parameters" /\ ebLog.ticked
  /\ ebLog.prev.current_state = "Opening" /\ eye.current_state = "Opening"
  /\ ebLog.prevVal # None
  /\ ebLog.val[1] # R0 /\ ebLog.val[1] # R1
  /\ ~RLe(ebLog.val[1], ebLog.prevVal[1])
  /\ eye.parameter_ids # {}

\* ---------------------------------------------------- Expression: claims

\* the blend law of one entry on the value v with the weight w
C13_Blend(en, v, w) ==
  CASE en.blend_type = "Add" -> RAdd(v, RMul(en.value, w))
    [] en.blend_type = "Multiply" -> RMul(v, RAdd(R1, RMul(RSub(en.value, R1), w)))
    [] en.blend_type = "Overwrite" -> RMul(en.value, w)

\* the value of parameter index id after the entries ps, taken in list order
RECURSIVE C13_Value(_, _, _, _)
C13_Value(ps, id, v, w) ==
  IF ps = <<>> THEN v
  ELSE C13_Value(Tail(ps), id, IF Head(ps).id = id THEN C13_Blend(Head(ps), v, w) ELSE v, w)

C13_Listed(id) == {k \in 1..Len(expr.parameters) : expr.parameters[k].id = id}

\* C13: apply(model, weight) blends with w = min(max(weight, 0), 1), entry by
\* entry in list order: v + b*w for Add, v*(1 + (b-1)*w) for Multiply, b*w for
\* Overwrite; at w = 0 Add and Multiply leave v and Overwrite writes 0;
\* parameters not listed and all part opacities stay as they were.
C13_BlendLaws ==
  exLog.op = "apply" =>
    LET w == IF RLe(exLog.weight, R0) THEN R0
             ELSE IF RLe(R1, exLog.weight) THEN R1 ELSE exLog.weight
    IN /\ \A i \in Params :
            exModel.parameter_values[i] =
              C13_Value(expr.parameters, i - 1, exLog.prev.parameter_values[i], w)
       /\ \A i \in Params :
            C13_Listed(i - 1) = {} =>
              exModel.parameter_values[i] = exLog.prev.parameter_values[i]
       /\ w = R0 =>
            \A i \in Params :
              exModel.parameter_values[i] =
                IF \E k \in C13_Listed(i - 1) : expr.parameters[k].blend_type = "Overwrite"
                THEN R0 ELSE exLog.prev.parameter_values[i]
       /\ exModel.part_opacities = exLog.prev.part_opacities

\* an application with a weight above 1 of two entries on one parameter
\* whose order matters
C13_Witness ==
  /\ exLog.op = "apply"
  /\ ~RLe(exLog.weight, R1)
  /\ Len(expr.parameters) = 2
  /\ expr.parameters[1].id = expr.parameters[2].id
  /\ exModel.parameter_values #
       Expression_apply_loop(<<expr.parameters[2], expr.parameters[1]>>,
                             exLog.prev.parameter_values, R1)

\* C14: after apply, every parameter the expression wrote lies within the
\* [parameter_min, parameter_max] range of the Moc if it did before.
C14_ResultWithinRange ==
  exLog.op = "apply" =>
    \A i \in Params :
      (/\ C13_Listed(i - 1) # {}
       /\ RLe(Moc_parameter_min[i], exLog.prev.parameter_values[i])
       /\ RLe(exLog.prev.parameter_values[i], Moc_parameter_max[i]))
      => /\ RLe(Moc_parameter_min[i], exModel.parameter_values[i])
         /\ RLe(exModel.parameter_values[i], Moc_parameter_max[i])

\* ---------------------------------------------------- core Model: claims

\* C15: m2 = m1.clone() has the parameter values and part opacities of m1 and
\* shares its Moc, and a later write to the values or opacities of one model
\* leaves those of every other model as they were.
C15_CloneIsIndependent ==
  [][
     /\ coreLog'.op = "clone" =>
          LET m1 == models'[coreLog'.target]
              m2 == models'[Len(models')]
          IN /\ heap'[m2.mem].parameter_values = heap[m1.mem].parameter_values
             /\ heap'[m2.mem].part_opacities = heap[m1.mem].part_opacities
             /\ m2.moc = m1.moc
             /\ heap'[m1.mem] = heap[m1.mem]
     /\ coreLog'.op \in {"set_parameter_value", "set_part_opacity"} =>
          \A j \in 1..Len(models) :
            j # coreLog'.target =>
              /\ heap'[models'[j].mem].parameter_values = heap[models[j].mem].parameter_values
              /\ heap'[models'[j].mem].part_opacities = heap[models[j].mem].part_opacities
    ]_vars

\* a write after a clone, that leaves the clone and its original with
\* different parameter values
C15_Witness ==
  /\ coreLog.op = "set_parameter_value"
  /\ Len(models) = 2
  /\ models[1].moc = models[2].moc
  /\ heap[models[1].mem].parameter_values # heap[models[2].mem].parameter_values

C16_Witness ==
  /\ coreLog.op = "from_bytes"
  /\ coreLog.data.moc_version = csmGetLatestMocVersion
  /\ coreLog.result = "Ok"

C17_IsMaskedIffSomeMask ==
  coreLog.op = "is_masked" =>
    (coreLog.ret <=>
       \E d \in Drawables : mocs[models[coreLog.target].moc].drawable_mask_counts[d] > 0)

\* --------------------------------------------------- core logger: claims

\* C18: over any interleaving of set_core_logger calls, one call only - the
\* one that wins the UNINITIALIZED -> INITIALIZING swap - writes LOGGER and
\* registers the native callback, once a call has returned it has done so,
\* and no other call changes LOGGER.
C18_OneInstaller ==
  /\ Len(lgLog.won) <= 1
  /\ lgLog.installed \in {<<>>, lgLog.won}
  /\ registered <= Len(lgLog.installed)
  /\ LOGGER = IF lgLog.installed = <<>> THEN None ELSE Some(lgLog.installed[1])
  /\ lgLog.returned # {} =>
       /\ Len(lgLog.installed) = 1
       /\ registered = 1

\* the winner has returned, and so has a later call of another thread that
\* found the logger set
C18_Witness ==
  /\ Len(lgLog.installed) = 1
  /\ lgLog.installed[1] \in lgLog.returned
  /\ \E c \in lgLog.returned : c[1] # lgLog.installed[1][1]
  /\ \E c \in lgLog.returned : c[1] = lgLog.installed[1][1] /\ c # lgLog.installed[1]

\* ------------------------------------- UserModel controllers: claims

\* C19: add_controller returns the number of controllers added before, the
\* new slot is off until controller_enable(slot, true), and update runs the
\* enabled controllers, each once, in ascending slot order.
C19_SlotOrder ==
  /\ ucLog.op = "add_controller" =>
       /\ ucLog.ret = Some(Len(controllers) - 1)
       /\ controllers[Len(controllers)] = TestController(Len(controllers) - 1)
       /\ ~controllers_enabled[Len(controllers)]
  /\ ucLog.op = "update" =>
       /\ \A k \in 1..Len(ucLog.runs) : ucLog.runs[k] \in ucLog.switched_on
       /\ \A k \in 1..(Len(ucLog.runs) - 1) : ucLog.runs[k] < ucLog.runs[k + 1]
       /\ \A i \in 0..(Len(controllers) - 1) :
            controllers_enabled[i + 1] <=> (\E k \in 1..Len(ucLog.runs) : ucLog.runs[k] = i)

\* an update that ran two controllers and left out none that was switched
\* on, the later slot writing last
C19_Witness ==
  /\ ucLog.op = "update"
  /\ Len(ucLog.runs) = 2
  /\ model.parameter_values[1] = Rat(ucLog.runs[2] % (MaxVal + 1), 1)
  /\ model.parameter_values[1] # Rat(ucLog.runs[1] % (MaxVal + 1), 1)

\* ------------------------------------------------ Motion curves: claims

\* the closed time range of a segment
C20_Range(seg) ==
  CASE seg.kind = "Linear" -> <<seg.p0.time, seg.p1.time>>
    [] seg.kind = "Bezier" -> <<seg.p0.time, seg.p3.time>>
    [] seg.kind = "Stepped" -> <<seg.p0.time, seg.t1>>
    [] seg.kind = "InverseStepped" -> <<seg.t0, seg.p1.time>>

C20_Containing(c) ==
  {k \in 1..Len(curves[c].segments) :
     /\ C20_Range(curves[c].segments[k])[1] <= motion.current_time
     /\ motion.current_time <= C20_Range(curves[c].segments[k])[2]}

\* the value the model holds where curve c points, None if it points nowhere
C20_Target(c, m) ==
  IF curves[c].target = "Parameter" /\ Position(Model_parameter_ids, curves[c].id) # None
  THEN Some(m.parameter_values[Position(Model_parameter_ids, curves[c].id)[1] + 1])
  ELSE IF curves[c].target = "PartOpacity" /\ Position(Model_part_ids, curves[c].id) # None
  THEN Some(m.part_opacities[Position(Model_part_ids, curves[c].id)[1] + 1])
  ELSE None

\* curve c is the last curve of the motion that points where it points
C20_LastOnTarget(c) ==
  \A c2 \in (c + 1)..Len(curves) :
    curves[c2].target # curves[c].target \/ curves[c2].id # curves[c].id

\* curve c is the only curve of the motion that points where it points
C20_AloneOnTarget(c) ==
  \A c2 \in 1..Len(curves) :
    c2 = c \/ curves[c2].target # curves[c].target \/ curves[c2].id # curves[c].id

\* C20: for each curve, update writes the value of the lowest-indexed
\* segment whose closed time range contains current_time, and of no other
\* segment; at the time where one segment ends and the next begins, it is
\* the value of the one that ends.
C20_FirstSegmentWins ==
  muLog.op = "update" =>
    \A c \in 1..Len(curves) :
      LET S == C20_Containing(c) IN
      IF S = {}
      THEN /\ muLog.taken[c] = None
           /\ C20_AloneOnTarget(c) => C20_Target(c, muModel) = C20_Target(c, muLog.prev)
      ELSE LET k == CHOOSE k \in S : \A j \in S : k <= j
               v == segment_interpolate(curves[c].segments[k], motion.current_time)
           IN /\ muLog.taken[c] = Some([segment |-> k, value |-> v])
              /\ (C20_LastOnTarget(c) /\ C20_Target(c, muModel) # None) =>
                   C20_Target(c, muModel) = Some(v)

\* an update at the time where the first segment of a curve ends and the
\* second begins, the two holding different values there
C20_Witness ==
  /\ muLog.op = "update"
  /\ \E c \in 1..Len(curves) :
       /\ C20_Containing(c) = {1, 2}
       /\ C20_Target(c, muModel) # None
       /\ C20_LastOnTarget(c)
       /\ segment_interpolate(curves[c].segments[2], motion.current_time)
            # segment_interpolate(curves[c].segments[1], motion.current_time)
       /\ C20_Target(c, muModel)
            = Some(segment_interpolate(curves[c].segments[1], motion.current_time))
       /\ C20_Target(c, muModel) # C20_Target(c, muLog.prev)

\* ------------------------------------------------------ Linear segments: claim C21

\* the one Linear segment of the curve, and the time update evaluates it at
C21_Seg == curves[1].segments[1]

C21_Law(seg, t) ==
  IF t = seg.p0.time THEN seg.p0.value
  ELSE IF t = seg.p1.time THEN seg.p1.value
  ELSE RAdd(seg.p0.value,
            RMul(RSub(seg.p1.value, seg.p0.value),
                 Rat(t - seg.p0.time, seg.p1.time - seg.p0.time)))

\* C21 as stated: a Linear segment evaluated at p0.time yields p0.value, at
\* p1.time yields p1.value, and strictly between them yields
\* p0.value + (p1.value - p0.value) * (t - p0.time) / (p1.time - p0.time).
C21_LinearEndpoints ==
  (muLog.op = "update" /\ muLog.taken[1] # None) =>
    LET seg == C21_Seg
        t == motion.current_time
    IN /\ t = seg.p0.time => muLog.taken[1][1].value = seg.p0.value
       /\ t = seg.p1.time => muLog.taken[1][1].value = seg.p1.value
       /\ (seg.p0.time < t /\ t < seg.p1.time) => muLog.taken[1][1].value = C21_Law(seg, t)

\* C21, amended: the same for a Linear segment with p0.time < p1.time; a
\* Linear segment with p0.time = p1.time yields p0.value.
C21_LinearEndpointsOfProperSegment ==
  (muLog.op = "update" /\ muLog.taken[1] # None) =>
    LET seg == C21_Seg
        t == motion.current_time
    IN /\ seg.p0.time < seg.p1.time =>
            /\ muLog.taken[1][1].value = C21_Law(seg, t)
            /\ muModel.parameter_values[1] = C21_Law(seg, t)
       /\ seg.p0.time = seg.p1.time => muLog.taken[1][1].value = seg.p0.value

\* an update strictly inside a Linear segment whose end values differ
C21_Witness ==
  /\ muLog.op = "update"
  /\ muLog.taken[1] # None
  /\ C21_Seg.p0.time < motion.current_time
  /\ motion.current_time < C21_Seg.p1.time
  /\ C21_Seg.p0.value # C21_Seg.p1.value
  /\ muModel.parameter_values[1] # C21_Seg.p0.value
  /\ muModel.parameter_values[1] # C21_Seg.p1.value

\* ------------------------------------------------------ EyeBlink: claim C22
\* the duration of the state s of the EyeBlink e
C22_Duration(e, s) ==
  CASE s = "Closing" -> e.closing_time
    [] s = "Closed" -> e.closed_time
    [] s = "Opening" -> e.opening_time
    [] s = "Open" -> e.blink_interval

\* C22: when a state expires, the countdown of the state entered is exactly
\* that state's duration, however far the tick overshot the expiry.
C22_CountdownIsDuration ==
  (/\ ebLog.op = "update_parameters"
   /\ ebLog.delta >= 0
   /\ eye.current_state # ebLog.prev.current_state) =>
    eye.next_cycle = C22_Duration(eye, eye.current_state)

\* ------------------------------------------------------ Motion::update: claim C23
\* curve c points at parameter i (an index from 1) of the model
C23_OnParameter(c, i) ==
  curves[c].target = "Parameter" /\ curves[c].id = Model_parameter_ids[i]

\* curve c points at part i (an index from 1) of the model
C23_OnPart(c, i) ==
  curves[c].target = "PartOpacity" /\ curves[c].id = Model_part_ids[i]

\* curve c points at nothing the model has
C23_Unknown(c) ==
  /\ \A i \in Params : ~C23_OnParameter(c, i)
  /\ \A i \in Parts : ~C23_OnPart(c, i)

\* C23: update returns Ok whatever the curves point at, leaves the motion as
\* it was, changes a parameter or a part opacity only to the value of a
\* curve that points at it, and applies every curve that points at
\* something after or before a curve that points at nothing.
C23_SkipsUnknownTargets ==
  [][
    muLog'.op = "update" =>
      /\ muLog'.result = "Ok"
      /\ Len(muLog'.taken) = Len(curves)
      /\ motion' = motion
      /\ curves' = curves
      /\ \A i \in Params :
           muModel'.parameter_values[i] # muModel.parameter_values[i] =>
             \E c \in 1..Len(curves) :
               /\ C23_OnParameter(c, i)
               /\ muLog'.taken[c] # None
               /\ muModel'.parameter_values[i] = muLog'.taken[c][1].value
      /\ \A i \in Parts :
           muModel'.part_opacities[i] # muModel.part_opacities[i] =>
             \E c \in 1..Len(curves) :
               /\ C23_OnPart(c, i)
               /\ muLog'.taken[c] # None
               /\ muModel'.part_opacities[i] = muLog'.taken[c][1].value
      /\ \A c \in 1..Len(curves) :
           (muLog'.taken[c] # None /\ C20_LastOnTarget(c)) =>
             /\ \A i \in Params :
                  C23_OnParameter(c, i) =>
                    muModel'.parameter_values[i] = muLog'.taken[c][1].value
             /\ \A i \in Parts :
                  C23_OnPart(c, i) => muModel'.part_opacities[i] = muLog'.taken[c][1].value
  ]_vars

\* an update over a first curve that points at nothing and has a segment at
\* the current time, followed by a curve that is applied
C23_Witness ==
  /\ muLog.op = "update"
  /\ muLog.result = "Ok"
  /\ Len(curves) = 2
  /\ C23_Unknown(1)
  /\ curves[1].target \in {"Parameter", "PartOpacity"}
  /\ muLog.taken[1] # None
  /\ muLog.taken[1][1].value # R0
  /\ muLog.taken[2] # None
  /\ muModel.parameter_values[1] = Rat(MaxVal, 1)
  /\ \A i \in Parts : muModel.part_opacities[i] = R0

\* ------------------------------------------------------ util::SimpleSlab: claim C24
\* the lowest empty index of the buffer b, its length when it has no hole
C24_LowestHole(b) ==
  IF \E i \in 1..Len(b) : b[i] = None
  THEN (CHOOSE i \in 1..Len(b) : b[i] = None /\ \A j \in 1..(i - 1) : b[j] # None) - 1
  ELSE Len(b)

\* C24: push stores the element in the lowest empty slot, appending when
\* there is no hole, returns that index and changes no other slot; take(i)
\* empties slot i, returns what it held and keeps the length; last_free is
\* always the lowest empty index, or the length when there is no hole.
C24_LowestHoleReused ==
  LET b == ec_expressions.buf
      p == ecLog.prev.buf
  IN /\ ec_expressions.last_free = C24_LowestHole(b)
     /\ ecLog.op = "push" =>
          LET i == C24_LowestHole(p) IN
          /\ ecLog.ret = Some(i)
          /\ Len(b) = (IF i = Len(p) THEN Len(p) + 1 ELSE Len(p))
          /\ b[i + 1] = Some(ecLog.t)
          /\ \A j \in 1..Len(p) : j # i + 1 => b[j] = p[j]
     /\ ecLog.op = "take" =>
          /\ Len(b) = Len(p)
          /\ ecLog.idx < Len(p) => (b[ecLog.idx + 1] = None /\ ecLog.ret = p[ecLog.idx + 1])
          /\ ecLog.idx >= Len(p) => ecLog.ret = None
          /\ \A j \in 1..Len(p) : j # ecLog.idx + 1 => b[j] = p[j]

\* a push that fills the lower of two holes, below a stored element
C24_Witness ==
  /\ ecLog.op = "push"
  /\ ecLog.ret # None
  /\ ecLog.ret[1] + 1 < Len(ecLog.prev.buf)
  /\ \E j \in (ecLog.ret[1] + 2)..Len(ecLog.prev.buf) : ecLog.prev.buf[j] = None
  /\ \E j \in (ecLog.ret[1] + 2)..Len(ecLog.prev.buf) : ecLog.prev.buf[j] # None
  /\ ec_expressions.last_free > ecLog.ret[1]
  /\ ec_expressions.last_free < Len(ec_expressions.buf)

\* ------------------------------------------------------ ExpressionController: claim C25
\* C25: after set_expression(n) with a registered name n, update_parameters
\* applies the expression registered under n at the time of the update,
\* whatever was registered in between, and no other.
C25_AppliesSelectedExpression ==
  (ecLog.op = "update_parameters" /\ ecLog.selected # None) =>
    ecLog.applied = util_SimpleSlab_get(ec_expressions, ec_name_map[ecLog.selected[1]][1])

\* ------------------------------------------------------ Motion: claim C26
\* C26: from a motion that does not loop and stands at its end, no operation
\* but stop() changes current_time, a tick with delta_time >= 0 included, and
\* such a tick leaves the motion not playing even after play().
C26_EndIsSticky ==
  (/\ moPrev.current_time = moPrev.duration
   /\ ~moPrev.looped
   /\ moOp # "stop"
   /\ (moOp = "tick" => moDt >= 0)) =>
    /\ motion.current_time = moPrev.duration
    /\ moOp = "tick" => ~motion.playing

\* a tick with delta_time > 0 after play() on a motion that had ended
C26_Witness ==
  /\ moOp = "tick"
  /\ moDt > 0
  /\ moPrev.current_time = moPrev.duration
  /\ ~moPrev.looped
  /\ moPrev.playing
  /\ motion.current_time = motion.duration
  /\ ~motion.playing

\* ------------------------------------------------------ UserModel::update: claim C27
\* the value update leaves in parameter i (an index from 1), worked out from
\* the snapshot alone: the snapshot value, blended by the current expression
\* if one is set, or the number of the last enabled controller on parameter 0
C27_FromSnapshot(i) ==
  LET blended ==
        IF current_expression # None /\ expressions[current_expression[1]] # None
        THEN C13_Value(expressions[current_expression[1]][1].parameters, i - 1,
                       parameter_snapshot[i], expression_weight)
        ELSE parameter_snapshot[i]
      on == {k \in 1..Len(controllers) : controllers_enabled[k]}
  IN IF i = 1 /\ on # {}
     THEN Rat(controllers[CHOOSE k \in on : \A j \in on : j <= k].id % (MaxVal + 1), 1)
     ELSE blended

\* C27: update leaves the snapshot as it was, and the parameter values after
\* it are those of the snapshot with the expression and the controllers
\* applied once, whatever the model held before: the writes of an earlier
\* update and direct writes since the last save are gone.
C27_UpdateStartsFromSnapshot ==
  [][
    (umOp' = "user_update" /\ ucLog'.op = "update") =>
      /\ parameter_snapshot' = parameter_snapshot
      /\ \A i \in Params : model'.parameter_values[i] = C27_FromSnapshot(i)
  ]_vars

\* an update with an Add expression set, on a model whose last parameter
\* held something other than the snapshot value, that leaves the snapshot
\* value plus the weighted Add value there, as one update from the
\* snapshot does
C27_Witness ==
  /\ umOp = "user_update"
  /\ ucLog.op = "update"
  /\ dirty
  /\ current_expression # None
  /\ expressions[current_expression[1]][1].parameters[1].blend_type = "Add"
  /\ model.parameter_values[NParams] # parameter_snapshot[NParams]
  /\ model.parameter_values[NParams]
       = RAdd(parameter_snapshot[NParams],
              RMul(expressions[current_expression[1]][1].parameters[1].value,
                   expression_weight))

\* ------------------------------------------------------ set_core_logger: claim C28
\* a call has returned only when STATE is INITIALIZED, the logger stored and
\* the native callback registered
C28_ReturnedAfterInit ==
  (lgLog.returned # {} \/ \E t \in Threads : pc[t] = "idle" /\ calls[t] > 0) =>
    /\ LOG_STATE = INITIALIZED
    /\ LOGGER # None
    /\ registered = 1

\* C28: no set_core_logger call returns before STATE is INITIALIZED, and
\* with every running call scheduled again and again, every call returns.
C28_ReturnsOnlyAfterInit ==
  /\ []C28_ReturnedAfterInit
  /\ \A t \in Threads : (pc[t] # "idle") ~> (pc[t] = "idle")

\* a call that found STATE at INITIALIZING and waited has returned
C28_Witness ==
  /\ \E c \in lgLog.spun : c \in lgLog.returned
  /\ LOG_STATE = INITIALIZED

\* ------------------------------------------------------ EyeBlink: claim C29
\* C29: with positive timings and delta >= 0, every value update_parameters
\* writes lies in [0, 1], whatever set_timings calls came between the ticks.
C29_ValueInUnitRange ==
  (ebLog.op = "update_parameters" /\ ebLog.ticked) =>
    /\ RLe(R0, ebLog.val[1])
    /\ RLe(ebLog.val[1], R1)

\* ------------------------------------------------------ BitIter: claim C30
\* C30: iterating BitIter::from_bitset(set) to its end yields exactly
\* set.len() booleans at every length, the empty set and the multiples of
\* BITS included, and never reaches the unreachable!() branch.
C30_YieldsEveryBit ==
  biLog.done => ~biLog.panic /\ Len(biLog.items) = Len(bitset)

====
